---- MODULE Spec2Model ----
(***************************************************************************)
(* Combined-answer consolidation (backend, express handlers over the       *)
(* Supabase REST store) and the client-side cache / sync engine of the     *)
(* CBT exam application.                                                   *)
(*                                                                         *)
(* Backend: every `await supabaseRequest(...)` on a table the program      *)
(* writes is one atomic step of a request; reads of bank_soal and          *)
(* mata_pelajaran (tables no handler writes) are folded into the step of   *)
(* the next access to a mutable table.                                     *)
(*                                                                         *)
(* Client: CacheManager and CacheFirstAPI.getSoal.  An async function is   *)
(* a flow that advances from await to await; an IndexedDB request takes    *)
(* effect when it is issued, a fetch is a request to the backend route,    *)
(* whose handler then runs step by step, and the flow goes on when the     *)
(* response is there.                                                      *)
(***************************************************************************)
EXTENDS Integers, Sequences, FiniteSets, Bags, TLC

(***************************************************************************)
(* Bounds of the model.                                                    *)
(***************************************************************************)
MaxReq == 3          \* requests issued in one behaviour
MaxInFlight == 2     \* requests running at the same time (Spec)
MaxCalls == 2        \* calls of the page: getSoal, saveJawaban, finishExam (ClientSpec)
MaxEvents == 2       \* 'online' and 'offline' events and reloads of the page (ClientSpec)
MaxDownloads == 3    \* package downloads (PackageSpec)
MaxTick == 4         \* writes of an access time to the image store (ImageSpec)
MaxFetch == 4        \* API requests through the service worker (ApiSpec)

\* processQueueItems: `if (item.attempts < 3)`
MaxAttempts == 3

\* ExamCacheManager: this.maxCacheSize, 50 MB, here in units of one record
MaxCacheSize == 2
\* deleteOldestCache: `deletedCount < 10`
DeleteCount == 10
\* supabaseRequest: the default of retries in api/index.js and in the enhanced
\* version
RetriesIndex == 2
RetriesEnhanced == 3

Peserta == {1, 2}    \* participant ids
Subjects == {1, 2}   \* mata_pelajaran ids of the one agenda

(***************************************************************************)
(* Strings are sequences of characters; split and join are the JavaScript  *)
(* String.prototype.split('|') and Array.prototype.join('|').              *)
(***************************************************************************)
RECURSIVE Split(_)
Split(s) ==
  IF s = <<>> THEN << <<>> >>
  ELSE LET rest == Split(Tail(s)) IN
       IF Head(s) = "|" THEN << <<>> >> \o rest
       ELSE << <<Head(s)>> \o Head(rest) >> \o Tail(rest)

RECURSIVE Join(_)
Join(ts) ==
  IF ts = <<>> THEN <<>>
  ELSE IF Len(ts) = 1 THEN ts[1]
  ELSE ts[1] \o <<"|">> \o Join(Tail(ts))

\* the same split and join for the long strings of the chunked routes: the
\* string is cut in halves, and the token across the cut is put together
RECURSIVE SplitLong(_)
SplitLong(s) ==
  IF s = <<>> THEN << <<>> >>
  ELSE IF Len(s) = 1 THEN (IF s[1] = "|" THEN << <<>>, <<>> >> ELSE << s >>)
  ELSE LET h == Len(s) \div 2
           A == SplitLong(SubSeq(s, 1, h))
           B == SplitLong(SubSeq(s, h + 1, Len(s)))
       IN SubSeq(A, 1, Len(A) - 1) \o << A[Len(A)] \o B[1] >> \o Tail(B)

RECURSIVE JoinLong(_)
JoinLong(ts) ==
  IF ts = <<>> THEN <<>>
  ELSE IF Len(ts) = 1 THEN ts[1]
  ELSE LET h == Len(ts) \div 2
       IN JoinLong(SubSeq(ts, 1, h)) \o <<"|">> \o JoinLong(SubSeq(ts, h + 1, Len(ts)))

\* Array(n).fill('-')
Dashes(n) == [i \in 1..n |-> <<"-">>]

\* the answer strings a client submits
AnswerStrings ==
  { <<"B", "|", "-">>, <<"-", "|", "D">>, <<"A">> }

(***************************************************************************)
(* The question bank.  No handler writes bank_soal or mata_pelajaran, so   *)
(* they are fixed by the initial state.  no_soal = 0 stands for a missing  *)
(* (null) no_soal.                                                         *)
(***************************************************************************)
Q(id, m, n) == [id |-> id, id_mapel |-> m, no_soal |-> n]

BankLayouts ==
  { \* the two-subject agenda of the end-to-end example
    [soal |-> {Q(1, 1, 1), Q(2, 1, 2), Q(3, 2, 1), Q(4, 2, 2)}, siap |-> {1, 2}],
    \* two questions of subject 1 share no_soal
    [soal |-> {Q(1, 1, 1), Q(2, 1, 1), Q(3, 2, 1)}, siap |-> {1, 2}],
    \* no_soal order differs from id order, one no_soal missing, subject 2 not ready
    [soal |-> {Q(1, 1, 0), Q(2, 1, 1), Q(3, 2, 1)}, siap |-> {1}],
    \* no subject is ready
    [soal |-> {Q(1, 1, 1)}, siap |-> {}] }

\* the agenda, the strings and the participant of the interleaved runs
ParLayouts == { [soal |-> {Q(1, 1, 1), Q(2, 2, 1)}, siap |-> {1, 2}] }
ParStrings == { <<"A">>, <<"B">> }
ParPeserta == {1}

\* the questions and the answers of the page that keeps TempAnswers
QuestionIds == {1, 2}
TempValues == {"A", "B"}

\* the usernames and passwords of the participants of the package
Usernames == { <<"u">>, <<"u", "1">> }
Passwords == { <<"p">>, <<"1", "p">>, <<":", "p">>, <<"q">> }

VARIABLES
  bank_soal,              \* set of question rows
  mata_pelajaran,         \* ids of the subjects with status_mapel = 'Siap'
  soal_mapping_gabungan,  \* bag of mapping rows
  jawaban_gabungan,       \* bag of CombinedAnswer rows
  jawaban,                \* bag of AnswerStore rows
  reqs,                   \* slot -> the request running in it
  nreq,                   \* requests issued so far
  applied,                \* <<p, m>> -> the string whose tokens were last PATCHed
  saved,                  \* <<p, m>> -> the string of the last completed save-jawaban
  genLog,                 \* the assignments computed by initJawabanGabungan so far
  initOk,                 \* some initJawabanGabungan has returned success
  kept,                   \* an initJawabanGabungan that found a row has returned success
  noMapel,                \* some initJawabanGabungan has returned 'Tidak ada mapel'
  gabOut,                 \* the last response of GET /jawaban-gabungan: <<>> or <<response>>
  \* ---- the client (one browser page of participant UserId) ----
  isOnline,               \* this.isOnline
  db,                     \* this.db is open (not null)
  cacheUser,              \* this.cache.user is set
  lsUser,                 \* localStorage 'cached_user'
  initPc,                 \* position of init(): "opening", "timer", "done"
  cacheSoal,              \* this.cache.soal: subject -> <<>> or <<data>>
  lsSoal,                 \* localStorage 'soal_<m>'
  idbSoal,                \* IndexedDB store 'soal'
  cacheJawaban,           \* this.cache.jawaban
  lsJawaban,              \* localStorage 'jawaban_<m>'
  idbJawaban,             \* IndexedDB store 'jawaban', in timestamp order
  idbSyncQueue,           \* IndexedDB store 'syncQueue', in timestamp order
  syncQueue,              \* this.syncQueue
  ui,                     \* the call the page is running (saveJawaban, finishExam, getSoal)
  sync,                   \* the syncAll run
  resp,                   \* flow -> the response its fetch is waiting for
  muts,                   \* the saveJawaban / finishExam calls made so far
  last,                   \* subject -> the latest call for it
  enq,                    \* calls that got a syncQueue entry
  dlv,                    \* <<call, route>> in the order of first arrival at the backend
  warm,                   \* subject -> the data of the last successful fetch, until cleared
  lastRet,                \* what the last getSoal call returned
  callOut,                \* how the last finishExam call ended: <<>> or <<outcome>>
  covered,                \* calls that returned before a syncAll run that has completed
  ncall,                  \* calls of the page so far
  nevent,                 \* 'online' / 'offline' events and reloads so far
  \* ---- ExamCacheManager (lib/cache-manager.js), the package of the agenda ----
  exam_packages,          \* IndexedDB store 'exam_packages', key agenda_id
  questions,              \* IndexedDB store 'questions', key [agenda_id, mapel_id, id]
  sessions,               \* IndexedDB store 'sessions', key session_id
  pkgTx,                  \* the puts of the transaction of saveExamPackage under way
  ndl,                    \* packages downloaded so far
  images,                 \* IndexedDB store 'images', key url
  tick,                   \* Date.now()
  openUrls,               \* gambar_url of the questions the page has open
  evict,                  \* the cursor of deleteOldestCache: <<>> or <<deletedCount>>
  \* ---- the service worker (service-worker.js) ----
  swReq,                  \* the API request handleApiRequest is serving: <<>> or <<request>>
  apiCache,               \* the cache API_CACHE: the requests with a stored response
  swOut,                  \* the response the page received last: <<>> or <<response>>
  nfetch,                 \* API requests of the page so far
  \* ---- supabaseRequest (api/index.js) ----
  sbReq,                  \* the supabaseRequest call followed: <<>> or <<call>>
  \* ---- ExamCacheManager, the store 'temp_answers' ----
  temp_answers,           \* question_id -> <<>> or <<the record of [agenda, mapel, question]>>
  tsync,                  \* the sync of the unsynced answers under way: <<>> or <<sync>>
  ackd,                   \* question_id -> <<>> or <<the answer the server acknowledged last>>
  \* ---- OfflineValidator (lib/cache-manager.js) and the exam-package route ----
  peserta,                \* nis_username -> password of the rows the package was built from
  participants,           \* this.participants: username -> password_hash
  loginOut                \* the result of the last validateLogin: <<>> or <<result>>

dbVars == <<bank_soal, mata_pelajaran, soal_mapping_gabungan, jawaban_gabungan, jawaban>>
ghostVars == <<applied, saved, genLog, initOk, kept, noMapel, gabOut>>
pkgVars == <<exam_packages, questions, sessions, pkgTx, ndl>>
imgVars == <<images, tick, openUrls, evict>>
swVars == <<swReq, apiCache, swOut, nfetch>>
tmpVars == <<temp_answers, tsync, ackd>>
loginVars == <<peserta, participants, loginOut>>
offVars == <<tmpVars, loginVars>>
envVars == <<isOnline, db, cacheUser, lsUser, initPc, pkgVars, imgVars, swVars, offVars, callOut, sbReq>>
soalVars == <<cacheSoal, lsSoal, idbSoal, warm>>
jawabanVars == <<cacheJawaban, lsJawaban, idbJawaban>>
queueVars == <<idbSyncQueue, syncQueue, enq>>
callVars == <<muts, last, ncall>>
\* the client but for the responses, which the handlers write
clientVars == <<envVars, soalVars, jawabanVars, queueVars, callVars, ui, sync, dlv, lastRet,
                covered, nevent>>
\* the backend but for the responses
serverVars == <<dbVars, nreq, applied, genLog>>
backendVars == <<serverVars, reqs, saved, initOk, kept, noMapel, gabOut>>
vars == <<dbVars, reqs, nreq, ghostVars, clientVars, resp>>

(***************************************************************************)
(* Queries of the REST store.                                              *)
(***************************************************************************)
Perms(S) == { f \in [1..Cardinality(S) -> S] : \A i, j \in 1..Cardinality(S) : f[i] = f[j] => i = j }

SoalOf(m) == { q \in bank_soal : q.id_mapel = m }

\* ORDER BY no_soal ASC: nulls sort last, the order among equal keys is
\* whatever the store returns
SortKey(q) == IF q.no_soal = 0 THEN 1000 ELSE q.no_soal

SoalOrders(m) ==
  { f \in Perms(SoalOf(m)) : \A i, j \in 1..Len(f) : i < j => SortKey(f[i]) <= SortKey(f[j]) }

\* ids ascending
RECURSIVE SortedSeq(_)
SortedSeq(S) ==
  IF S = {} THEN <<>>
  ELSE LET x == CHOOSE y \in S : \A z \in S : y <= z IN <<x>> \o SortedSeq(S \ {x})

MapelList == SortedSeq(mata_pelajaran)

\* rows of a bag that satisfy a filter
Rows(B) == BagToSet(B)

RECURSIVE BagOfSeq(_)
BagOfSeq(s) == IF s = <<>> THEN EmptyBag ELSE SetToBag({Head(s)}) (+) BagOfSeq(Tail(s))

\* PATCH: every row of M (the rows that match the filter) is overwritten by F[row]
RECURSIVE SumCopies(_, _)
SumCopies(B, S) ==
  IF S = {} THEN 0
  ELSE LET r == CHOOSE x \in S : TRUE IN CopiesIn(r, B) + SumCopies(B, S \ {r})

Patch(B, M, F) ==
  LET keep == Rows(B) \ M
      new == keep \cup { F[r] : r \in M }
  IN [r2 \in new |-> SumCopies(B, {r \in keep : r = r2}) + SumCopies(B, {r \in M : F[r] = r2})]

Insert(B, row) == B (+) SetToBag({row})

\* mapping rows of one subject, ORDER BY no_urut_gabungan ASC; find() takes
\* the first row of a question, i.e. the one with the least no_urut_gabungan
MappingOfMapel(m) == { r \in Rows(soal_mapping_gabungan) : r.id_mapel = m }

FindMapping(list, soalId) ==
  LET rs == { r \in list : r.id_soal = soalId } IN
  IF rs = {} THEN <<>>
  ELSE << CHOOSE r \in rs : \A r2 \in rs : r.no_urut_gabungan <= r2.no_urut_gabungan >>

GabunganOf(p) == { r \in Rows(jawaban_gabungan) : r.id_peserta = p }
JawabanOf(p, m) == { r \in Rows(jawaban) : r.id_peserta = p /\ r.id_mapel = m }


(***************************************************************************)
(* Requests.  A slot holds the handler invocation running in it: its       *)
(* position (pc) and its local variables.                                  *)
(***************************************************************************)
Slots == 1..MaxInFlight

NoReq ==
  [kind |-> "none", pid |-> 0, mid |-> 0, jwb |-> <<>>, pc |-> "idle", ret |-> "none",
   soalList |-> <<>>, mappingList |-> {}, gab |-> <<>>, soalMappings |-> <<>>,
   totalSoal |-> 0, idx |-> 0, hadRow |-> FALSE, hadMapping |-> FALSE, status |-> "",
   message |-> "", flow |-> "none"]

NewReq(kind, p, m, s, pc) ==
  [NoReq EXCEPT !.kind = kind, !.pid = p, !.mid = m, !.jwb = s, !.pc = pc]

Busy == { k \in Slots : reqs[k].pc # "idle" }

\* a request arrives: it takes the first free slot
CanStart(k, limit) ==
  /\ nreq < MaxReq
  /\ Cardinality(Busy) < limit
  /\ reqs[k].pc = "idle"
  /\ \A j \in Slots : j < k => reqs[j].pc # "idle"

\* res.json({success: true, ...}) of the routes; get-soal sends the questions,
\* the stored answer string and the status
\* GET /jawaban-gabungan sends success, jawaban and total_soal of the result
\* of getJawabanGabungan
Response(r) ==
  IF r.kind = "getsoal"
    THEN [success |-> TRUE, status |-> r.status, jawaban_sebelumnya |-> r.jwb,
          data_soal |-> r.soalList]
  ELSE IF r.kind = "getgab"
    THEN IF r.gab = <<>>
           THEN [success |-> FALSE, jawaban |-> <<>>, total_soal |-> 0]
         ELSE [success |-> TRUE, jawaban |-> r.gab[1].jawaban,
               total_soal |-> r.gab[1].total_soal]
  ELSE [success |-> TRUE]

\* the request in slot k moves on to nr; a request at "done" has sent its
\* response and leaves its slot
Commit(k, nr, initSuccess) ==
  /\ reqs' = [reqs EXCEPT ![k] = IF nr.pc = "done" THEN NoReq ELSE nr]
  /\ resp' = IF nr.pc = "done" /\ nr.flow # "none"
               THEN [resp EXCEPT ![nr.flow] = <<Response(nr)>>] ELSE resp
  /\ initOk' = (initOk \/ initSuccess)
  /\ kept' = (kept \/ (initSuccess /\ nr.hadRow))
  /\ noMapel' = (noMapel \/ nr.message = "Tidak ada mapel")
  /\ gabOut' = IF nr.pc = "done" /\ nr.kind = "getgab"
                 THEN <<[pid |-> nr.pid, found |-> nr.gab # <<>>, response |-> Response(nr)]>>
               ELSE gabOut
  /\ saved' = IF nr.pc = "done" /\ nr.kind = "save"
                THEN [saved EXCEPT ![<<nr.pid, nr.mid>>] = <<nr.jwb>>]
              ELSE IF nr.pc = "done" /\ nr.kind = "finish"
                THEN [saved EXCEPT ![<<nr.pid, nr.mid>>] = <<>>]
              ELSE saved

(***************************************************************************)
(* initJawabanGabungan(pid, aid)                                           *)
(***************************************************************************)
\* the call: the position and the continuation of the caller
CallInit(r, ret) ==
  [r EXCEPT !.pc = "i_start", !.ret = ret, !.hadRow = (GabunganOf(r.pid) # {})]

\* the return: the caller goes on; updateJawabanGabungan returns false when
\* init failed, and the routes ignore both results
AfterInit(r, success) ==
  IF r.ret = "done" THEN [r EXCEPT !.pc = "done"]
  ELSE IF success THEN [r EXCEPT !.pc = r.ret]
  ELSE [r EXCEPT !.pc = "done"]

\* one result of the bank_soal query (ORDER BY no_soal) per ready subject
OrderChoices ==
  { f \in [mata_pelajaran -> UNION { SoalOrders(m) : m \in mata_pelajaran }] :
      \A m \in mata_pelajaran : f[m] \in SoalOrders(m) }

\* no_soal_mapel: soal.no_soal || 1
NoSoalMapel(q) == IF q.no_soal = 0 THEN 1 ELSE q.no_soal

\* the loop over mapelList and soalList: no_urut_gabungan is totalSoal + 1,
\* totalSoal runs on across the subjects
\* (variant: no_urut_gabungan restarts at 1 in every subject)
RECURSIVE BuildMappingsPerMapel(_, _, _)
BuildMappingsPerMapel(ml, ord, totalSoal) ==
  IF ml = <<>> THEN <<>>
  ELSE LET m == Head(ml)
           sl == ord[m]
           rows == [i \in 1..Len(sl) |->
                      [id_mapel |-> m, id_soal |-> sl[i].id,
                       no_soal_mapel |-> NoSoalMapel(sl[i]),
                       no_urut_gabungan |-> i]]
       IN rows \o BuildMappingsPerMapel(Tail(ml), ord, totalSoal + Len(sl))

RECURSIVE BuildMappings(_, _, _)
BuildMappings(ml, ord, totalSoal) ==
  IF ml = <<>> THEN <<>>
  ELSE LET m == Head(ml)
           sl == ord[m]
           rows == [i \in 1..Len(sl) |->
                      [id_mapel |-> m, id_soal |-> sl[i].id,
                       no_soal_mapel |-> NoSoalMapel(sl[i]),
                       no_urut_gabungan |-> totalSoal + i]]
       IN rows \o BuildMappings(Tail(ml), ord, totalSoal + Len(sl))

\* (variant: an empty mapelList is not tested for)
InitStartAnyMapel(k, r) ==
  /\ r.pc = "i_start"
  /\ \E ord \in OrderChoices :
       LET sm == BuildMappings(MapelList, ord, 0)
           existingMapping == Rows(soal_mapping_gabungan)
           next == IF sm # <<>> /\ existingMapping = {} THEN "i_ins" ELSE "i_chk_jwb"
       IN /\ genLog' = genLog \cup {sm}
          /\ Commit(k, [r EXCEPT !.pc = next, !.soalMappings = sm,
                                 !.totalSoal = Len(sm), !.idx = 1,
                                 !.hadMapping = (existingMapping # {})], FALSE)
          /\ UNCHANGED <<dbVars, applied>>

\* (variant: an agenda that already has mapping rows gets no computed rows,
\* so totalSoal is 0 for a participant initialized later)
InitStartSkipMapped(k, r) ==
  /\ r.pc = "i_start"
  /\ IF mata_pelajaran = {}
     THEN /\ Commit(k, [AfterInit(r, FALSE) EXCEPT !.message = "Tidak ada mapel"], FALSE)
          /\ UNCHANGED <<dbVars, applied, genLog>>
     ELSE \E ord \in OrderChoices :
            LET existingMapping == Rows(soal_mapping_gabungan)
                sm == IF existingMapping = {} THEN BuildMappings(MapelList, ord, 0) ELSE <<>>
                next == IF sm # <<>> /\ existingMapping = {} THEN "i_ins" ELSE "i_chk_jwb"
            IN /\ genLog' = genLog \cup {sm}
               /\ Commit(k, [r EXCEPT !.pc = next, !.soalMappings = sm,
                                      !.totalSoal = Len(sm), !.idx = 1,
                                      !.hadMapping = (existingMapping # {})], FALSE)
               /\ UNCHANGED <<dbVars, applied>>

\* steps 1-3a: the subjects, their questions, the computed rows, and the test
\* whether the agenda already has mapping rows
InitStart(k, r) ==
  /\ r.pc = "i_start"
  /\ IF mata_pelajaran = {}
     THEN /\ Commit(k, [AfterInit(r, FALSE) EXCEPT !.message = "Tidak ada mapel"], FALSE)
          /\ UNCHANGED <<dbVars, applied, genLog>>
     ELSE \E ord \in OrderChoices :
            LET sm == BuildMappings(MapelList, ord, 0)
                existingMapping == Rows(soal_mapping_gabungan)
                next == IF sm # <<>> /\ existingMapping = {} THEN "i_ins" ELSE "i_chk_jwb"
            IN /\ genLog' = genLog \cup {sm}
               /\ Commit(k, [r EXCEPT !.pc = next, !.soalMappings = sm,
                                      !.totalSoal = Len(sm), !.idx = 1,
                                      !.hadMapping = (existingMapping # {})], FALSE)
               /\ UNCHANGED <<dbVars, applied>>

\* step 3b: one POST per mapping row
InitInsertMapping(k, r) ==
  /\ r.pc = "i_ins"
  /\ soal_mapping_gabungan' = Insert(soal_mapping_gabungan, r.soalMappings[r.idx])
  /\ Commit(k, IF r.idx = Len(r.soalMappings) THEN [r EXCEPT !.pc = "i_chk_jwb"]
               ELSE [r EXCEPT !.idx = r.idx + 1], FALSE)
  /\ UNCHANGED <<bank_soal, mata_pelajaran, jawaban_gabungan, jawaban, applied, genLog>>

\* (variant: the row is inserted without the existence test)
InitCheckJawabanAlways(k, r) ==
  /\ r.pc = "i_chk_jwb"
  /\ Commit(k, [r EXCEPT !.pc = "i_ins_jwb"], FALSE)
  /\ UNCHANGED <<dbVars, applied, genLog>>

\* step 4a: is there a jawaban_gabungan row of the participant
InitCheckJawaban(k, r) ==
  /\ r.pc = "i_chk_jwb"
  /\ IF GabunganOf(r.pid) = {}
     THEN Commit(k, [r EXCEPT !.pc = "i_ins_jwb"], FALSE)
     ELSE Commit(k, AfterInit(r, TRUE), TRUE)
  /\ UNCHANGED <<dbVars, applied, genLog>>

\* step 4b: POST the row of totalSoal dashes
InitInsertJawaban(k, r) ==
  /\ r.pc = "i_ins_jwb"
  /\ jawaban_gabungan' = Insert(jawaban_gabungan,
        [id_peserta |-> r.pid, jawaban |-> Join(Dashes(r.totalSoal)),
         total_soal |-> r.totalSoal])
  /\ Commit(k, AfterInit(r, TRUE), TRUE)
  /\ UNCHANGED <<bank_soal, mata_pelajaran, soal_mapping_gabungan, jawaban, applied, genLog>>

(***************************************************************************)
(* updateJawabanGabungan(pid, aid, mid, jawabanMapelString)                *)
(***************************************************************************)
\* step 4: token i of the subject string goes to the position of the
\* mapping row found for soalList[i]
\* (variant: token i goes to index i-1, the mapping is not used)
RECURSIVE ApplyFromLocal(_, _, _, _, _)
ApplyFromLocal(arr, i, soalList, jawabanArray, mappingList) ==
  IF i > Len(soalList) THEN arr
  ELSE LET tok == IF i <= Len(jawabanArray) THEN jawabanArray[i] ELSE <<"-">>
           arr2 == IF i <= Len(arr) THEN [arr EXCEPT ![i] = tok] ELSE arr
       IN ApplyFromLocal(arr2, i + 1, soalList, jawabanArray, mappingList)

\* (variant: the loop runs over the tokens; a token past the last question
\* goes to the index of its own position, a question without a token is
\* left as it is)
RECURSIVE ApplyFromEveryToken(_, _, _, _, _)
ApplyFromEveryToken(arr, i, soalList, jawabanArray, mappingList) ==
  IF i > Len(jawabanArray) THEN arr
  ELSE LET tok == jawabanArray[i]
           mapping == IF i <= Len(soalList) THEN FindMapping(mappingList, soalList[i]) ELSE <<>>
           index == IF i > Len(soalList) THEN i - 1
                    ELSE IF mapping = <<>> THEN -1 ELSE mapping[1].no_urut_gabungan - 1
           arr2 == IF index >= 0 /\ index < Len(arr)
                     THEN [arr EXCEPT ![index + 1] = tok] ELSE arr
       IN ApplyFromEveryToken(arr2, i + 1, soalList, jawabanArray, mappingList)

RECURSIVE ApplyFrom(_, _, _, _, _)
ApplyFrom(arr, i, soalList, jawabanArray, mappingList) ==
  IF i > Len(soalList) THEN arr
  ELSE LET tok == IF i <= Len(jawabanArray) THEN jawabanArray[i] ELSE <<"-">>
           mapping == FindMapping(mappingList, soalList[i])
           index == IF mapping = <<>> THEN -1 ELSE mapping[1].no_urut_gabungan - 1
           arr2 == IF mapping # <<>> /\ index >= 0 /\ index < Len(arr)
                     THEN [arr EXCEPT ![index + 1] = tok] ELSE arr
       IN ApplyFrom(arr2, i + 1, soalList, jawabanArray, mappingList)

ApplyTokens(jawabanString, soalList, jawabanMapelString, mappingList) ==
  Join(ApplyFrom(Split(jawabanString), 1, soalList, Split(jawabanMapelString), mappingList))

\* steps 1-2: the questions of the subject and its mapping rows; without
\* questions the function returns false, without mapping rows it calls init
UpdateReadMapping(k, r) ==
  /\ r.pc = "u_map"
  /\ \E sl \in SoalOrders(r.mid) :
       LET ids == [i \in 1..Len(sl) |-> sl[i].id]
           mappingList == MappingOfMapel(r.mid)
       IN Commit(k, IF ids = <<>> THEN [r EXCEPT !.pc = "done"]
                    ELSE IF mappingList = {}
                      THEN CallInit([r EXCEPT !.soalList = ids], "u_remap")
                    ELSE [r EXCEPT !.pc = "u_gab", !.soalList = ids,
                                   !.mappingList = mappingList], FALSE)
  /\ UNCHANGED <<dbVars, applied, genLog>>

\* after the init of step 2: the mapping is read again; an empty result
\* returns false, and `mappingList = mappingListNew` assigns to a const
\* binding, which throws into the catch block: false as well
UpdateRereadMapping(k, r) ==
  /\ r.pc = "u_remap"
  /\ Commit(k, [r EXCEPT !.pc = "done"], FALSE)
  /\ UNCHANGED <<dbVars, applied, genLog>>

\* step 3: the CombinedAnswer row (limit 1); without one the function calls init
UpdateReadGabungan(k, r) ==
  /\ r.pc = "u_gab"
  /\ IF GabunganOf(r.pid) = {}
     THEN Commit(k, CallInit(r, "u_regab"), FALSE)
     ELSE \E row \in GabunganOf(r.pid) :
            Commit(k, [r EXCEPT !.pc = "u_patch", !.gab = <<row>>], FALSE)
  /\ UNCHANGED <<dbVars, applied, genLog>>

\* after the init of step 3: as after the init of step 2
\* (`jawabanGabungan = jawabanGabunganNew` assigns to a const binding)
UpdateRereadGabungan(k, r) ==
  /\ r.pc = "u_regab"
  /\ Commit(k, [r EXCEPT !.pc = "done"], FALSE)
  /\ UNCHANGED <<dbVars, applied, genLog>>

\* steps 4-5: the tokens are written into the string read in step 3 and the
\* result is PATCHed over the rows of (pid, aid)
UpdatePatch(k, r) ==
  /\ r.pc = "u_patch"
  /\ LET str == ApplyTokens(r.gab[1].jawaban, r.soalList, r.jwb, r.mappingList)
         M == GabunganOf(r.pid)
     IN jawaban_gabungan' = Patch(jawaban_gabungan, M, [x \in M |-> [x EXCEPT !.jawaban = str]])
  /\ applied' = [applied EXCEPT ![<<r.pid, r.mid>>] = <<r.jwb>>]
  /\ Commit(k, [r EXCEPT !.pc = "done"], FALSE)
  /\ UNCHANGED <<bank_soal, mata_pelajaran, soal_mapping_gabungan, jawaban, genLog>>

(***************************************************************************)
(* The routes.                                                             *)
(***************************************************************************)
\* POST /save-jawaban: PATCH the AnswerStore rows, then updateJawabanGabungan
SaveJawaban(k, r) ==
  /\ r.pc = "s_patch"
  /\ LET M == JawabanOf(r.pid, r.mid)
     IN jawaban' = Patch(jawaban, M, [x \in M |-> [x EXCEPT !.jawaban = r.jwb]])
  /\ Commit(k, [r EXCEPT !.pc = "u_map"], FALSE)
  /\ UNCHANGED <<bank_soal, mata_pelajaran, soal_mapping_gabungan, jawaban_gabungan, applied, genLog>>

\* POST /selesai-ujian: the same with status 'Selesai'
SelesaiUjian(k, r) ==
  /\ r.pc = "f_patch"
  /\ LET M == JawabanOf(r.pid, r.mid)
     IN jawaban' = Patch(jawaban, M,
          [x \in M |-> [x EXCEPT !.jawaban = r.jwb, !.status = "Selesai"]])
  /\ Commit(k, [r EXCEPT !.pc = "u_map"], FALSE)
  /\ UNCHANGED <<bank_soal, mata_pelajaran, soal_mapping_gabungan, jawaban_gabungan, applied, genLog>>

\* POST /get-soal: the questions (ORDER BY no_soal) and the AnswerStore row
\* (limit 1) are read ...
GetSoalRead(k, r) ==
  /\ r.pc = "g_read"
  /\ \E sl \in SoalOrders(r.mid) :
       LET ids == [i \in 1..Len(sl) |-> sl[i].id]
           jRes == JawabanOf(r.pid, r.mid)
       IN IF jRes # {}
          THEN \E row \in jRes :
                 Commit(k, [r EXCEPT !.pc = "g_chk", !.soalList = ids, !.jwb = row.jawaban,
                                     !.status = IF row.status = "Selesai" THEN "Selesai"
                                                ELSE "Lanjut"], FALSE)
          ELSE Commit(k, [r EXCEPT !.pc = "g_ins", !.soalList = ids, !.status = "Baru",
                                   !.jwb = Join(Dashes(Len(ids)))], FALSE)
  /\ UNCHANGED <<dbVars, applied, genLog>>

\* ... created with one dash per question when there was none ...
GetSoalInsert(k, r) ==
  /\ r.pc = "g_ins"
  /\ jawaban' = Insert(jawaban,
        [id_peserta |-> r.pid, id_mapel |-> r.mid,
         jawaban |-> r.jwb, status |-> "Proses"])
  /\ Commit(k, [r EXCEPT !.pc = "g_chk"], FALSE)
  /\ UNCHANGED <<bank_soal, mata_pelajaran, soal_mapping_gabungan, jawaban_gabungan, applied, genLog>>

\* ... and init is called when the participant has no CombinedAnswer row
GetSoalCheckGabungan(k, r) ==
  /\ r.pc = "g_chk"
  /\ Commit(k, IF GabunganOf(r.pid) = {} THEN CallInit(r, "done")
               ELSE [r EXCEPT !.pc = "done"], FALSE)
  /\ UNCHANGED <<dbVars, applied, genLog>>

\* GET /jawaban-gabungan, getJawabanGabungan(pid, aid): the CombinedAnswer row
\* (limit 1); without one the result is {success: false, message: 'Jawaban
\* gabungan tidak ditemukan'}
GetGabunganRead(k, r) ==
  /\ r.pc = "gg_read"
  /\ IF GabunganOf(r.pid) = {}
       THEN Commit(k, [r EXCEPT !.pc = "done",
                                !.message = "Jawaban gabungan tidak ditemukan"], FALSE)
     ELSE \E row \in GabunganOf(r.pid) :
            Commit(k, [r EXCEPT !.pc = "gg_map", !.gab = <<row>>], FALSE)
  /\ UNCHANGED <<dbVars, applied, genLog>>

\* ... then the mapping rows for soal_details, and the result
GetGabunganMapping(k, r) ==
  /\ r.pc = "gg_map"
  /\ Commit(k, [r EXCEPT !.pc = "done", !.mappingList = Rows(soal_mapping_gabungan)], FALSE)
  /\ UNCHANGED <<dbVars, applied, genLog>>

(***************************************************************************)
(* The chunked routes (api/index.js).                                      *)
(***************************************************************************)
\* Array(500).fill('-') of get-soal-chunked, CHUNK_SIZE of save-jawaban-chunk
DefaultAnswers == 500
CHUNK_SIZE == 30

\* a null or undefined entry of chunk_data
Null == <<>>

\* the locals of a chunked request
ChunkReq(kind, p, m, chunk_index, chunk_data, pc) ==
  [chunk_index |-> chunk_index, chunk_data |-> chunk_data, currentAnswers |-> <<>>]
    @@ NewReq(kind, p, m, <<>>, pc)

\* POST /get-soal-chunked: the AnswerStore row of (peserta, mapel) is read
\* (limit 1) ...
GetSoalChunkedRead(k, r) ==
  /\ r.pc = "gc_read"
  /\ LET jRes == JawabanOf(r.pid, r.mid)
     IN IF jRes # {}
        THEN \E row \in jRes :
               Commit(k, [r EXCEPT !.pc = "done", !.jwb = row.jawaban,
                                   !.status = IF row.status = "Selesai" THEN "Selesai"
                                              ELSE "Lanjut"], FALSE)
        ELSE Commit(k, [r EXCEPT !.pc = "gc_ins", !.status = "Baru",
                                 !.jwb = JoinLong(Dashes(DefaultAnswers))], FALSE)
  /\ UNCHANGED <<dbVars, applied, genLog>>

\* ... and created with 500 dashes when there was none
GetSoalChunkedInsert(k, r) ==
  /\ r.pc = "gc_ins"
  /\ jawaban' = Insert(jawaban,
        [id_peserta |-> r.pid, id_mapel |-> r.mid,
         jawaban |-> r.jwb, status |-> "Proses"])
  /\ Commit(k, [r EXCEPT !.pc = "done"], FALSE)
  /\ UNCHANGED <<bank_soal, mata_pelajaran, soal_mapping_gabungan, jawaban_gabungan, applied, genLog>>

\* the loop of save-jawaban-chunk: entry i of chunk_data goes to index
\* chunk_index * CHUNK_SIZE + i when it is not null and the index exists
ApplyChunk(currentAnswers, chunk_index, chunk_data) ==
  [j \in 1..Len(currentAnswers) |->
     LET i == (j - 1) - chunk_index * CHUNK_SIZE
     IN IF i >= 0 /\ i < Len(chunk_data) /\ chunk_data[i + 1] # Null
          THEN chunk_data[i + 1] ELSE currentAnswers[j]]

\* POST /save-jawaban-chunk: the stored string is read (limit 1); 404 when
\* there is no row ...
SaveChunkRead(k, r) ==
  /\ r.pc = "sc_read"
  /\ LET jRes == JawabanOf(r.pid, r.mid)
     IN IF jRes = {}
        THEN Commit(k, [r EXCEPT !.pc = "done",
                                 !.message = "Data jawaban tidak ditemukan"], FALSE)
        ELSE \E row \in jRes :
               Commit(k, [r EXCEPT !.pc = "sc_patch",
                                   !.currentAnswers = SplitLong(row.jawaban)], FALSE)
  /\ UNCHANGED <<dbVars, applied, genLog>>

\* ... the entries of the chunk are written into the array read, and the
\* joined array is PATCHed over the rows of (pid, mid)
SaveChunkPatch(k, r) ==
  /\ r.pc = "sc_patch"
  /\ LET updatedAnswer == JoinLong(ApplyChunk(r.currentAnswers, r.chunk_index, r.chunk_data))
         M == JawabanOf(r.pid, r.mid)
     IN jawaban' = Patch(jawaban, M, [x \in M |-> [x EXCEPT !.jawaban = updatedAnswer]])
  /\ Commit(k, [r EXCEPT !.pc = "done"], FALSE)
  /\ UNCHANGED <<bank_soal, mata_pelajaran, soal_mapping_gabungan, jawaban_gabungan, applied, genLog>>

\* the step of a request at position r.pc
Step(k, r) ==
  \/ InitStart(k, r)
  \/ InitInsertMapping(k, r)
  \/ InitCheckJawaban(k, r)
  \/ InitInsertJawaban(k, r)
  \/ UpdateReadMapping(k, r)
  \/ UpdateRereadMapping(k, r)
  \/ UpdateReadGabungan(k, r)
  \/ UpdateRereadGabungan(k, r)
  \/ UpdatePatch(k, r)
  \/ SaveJawaban(k, r)
  \/ SelesaiUjian(k, r)
  \/ GetSoalRead(k, r)
  \/ GetSoalInsert(k, r)
  \/ GetSoalCheckGabungan(k, r)
  \/ GetGabunganRead(k, r)
  \/ GetGabunganMapping(k, r)
  \/ GetSoalChunkedRead(k, r)
  \/ GetSoalChunkedInsert(k, r)
  \/ SaveChunkRead(k, r)
  \/ SaveChunkPatch(k, r)

(***************************************************************************)
(* The client: CacheManager (cache-manager.js) and CacheFirstAPI.getSoal.  *)
(* The page belongs to participant UserId, who has logged in: 'cached_user' *)
(* is in localStorage.  One call of the page and one                       *)
(* syncAll run are followed at a time.  Timestamps (Date.now()) of         *)
(* different calls differ, so the number of a call stands for its          *)
(* timestamp and for the key of its syncQueue entry.                       *)
(***************************************************************************)
UserId == CHOOSE p \in ParPeserta : TRUE
\* the subjects the page works on
ClientSubjects == {1}
\* the answer string of the n-th call of the page
ClientStrings == << <<"A">>, <<"B">> >>
StringOfCall(n) == ClientStrings[((n - 1) % Len(ClientStrings)) + 1]
Flows == {"ui", "sync"}

NoFlow ==
  [op |-> "idle", pc |-> "idle", m |-> 0, jwb |-> <<>>, force |-> FALSE, mut |-> 0,
   items |-> <<>>, i |-> 0, cover |-> {}]

\* fetch(url, {method: 'POST', body}) reaches the route: the handler starts in
\* the first free slot and runs up to its first access to the store
Fetch(f, kind, m, s, pc) ==
  \E k \in Slots :
    /\ reqs[k].pc = "idle"
    /\ \A j \in Slots : j < k => reqs[j].pc # "idle"
    /\ Step(k, [NewReq(kind, UserId, m, s, pc) EXCEPT !.flow = f])
    /\ UNCHANGED nreq

\* the first arrival of call n at a route
Delivered(n, route) ==
  IF \E j \in 1..Len(dlv) : dlv[j] = <<n, route>> THEN dlv ELSE Append(dlv, <<n, route>>)

\* saveToIndexedDB('jawaban', data): store.put replaces the record of the same id
PutJawaban(store, data) ==
  SelectSeq(store, LAMBDA x : x.id # data.id) \o <<data>>

\* getUnsyncedJawaban: index 'timestamp', filter(item => !item.synced)
Unsynced == IF db THEN SelectSeq(idbJawaban, LAMBDA x : ~x.synced) ELSE <<>>

\* markAsSynced(id): get, data.synced = true, put
MarkAsSynced(store, id) ==
  IF db THEN [j \in 1..Len(store) |->
                IF store[j].id = id THEN [store[j] EXCEPT !.synced = TRUE] ELSE store[j]]
  ELSE store

\* removeFromSyncQueue(id)
RemoveFromSyncQueue(q, id) ==
  IF db THEN SelectSeq(q, LAMBDA x : x.id # id) ELSE q

\* updateSyncQueueItem(item): store.put(item), the entry keeps its timestamp
UpdateSyncQueueItem(q, item) ==
  IF db THEN SelectSeq(q, LAMBDA x : x.id < item.id) \o <<item>>
               \o SelectSeq(q, LAMBDA x : x.id > item.id)
  ELSE q

\* CacheManager.getSoal(mapelId): memory, localStorage, IndexedDB
CacheGetSoal(m) ==
  IF cacheSoal[m] # <<>> THEN [data |-> cacheSoal[m], source |-> "memory"]
  ELSE IF lsSoal[m] # <<>> THEN [data |-> lsSoal[m], source |-> "localStorage"]
  ELSE IF db /\ idbSoal[m] # <<>> THEN [data |-> idbSoal[m], source |-> "indexedDB"]
  ELSE [data |-> <<>>, source |-> "none"]

\* clearExamCache(mapelId)
ClearExamCache(m) ==
  /\ cacheSoal' = [cacheSoal EXCEPT ![m] = <<>>]
  /\ cacheJawaban' = [cacheJawaban EXCEPT ![m] = <<>>]
  /\ lsSoal' = [lsSoal EXCEPT ![m] = <<>>]
  /\ lsJawaban' = [lsJawaban EXCEPT ![m] = <<>>]
  /\ idbSoal' = IF db THEN [idbSoal EXCEPT ![m] = <<>>] ELSE idbSoal
  /\ idbJawaban' = IF db THEN SelectSeq(idbJawaban, LAMBDA x : x.mapelId # m) ELSE idbJawaban
  /\ warm' = [warm EXCEPT ![m] = <<>>]

\* ---- the page and its environment ----

\* syncAll() past `if (!this.isOnline) return`: syncPendingJawaban reads the
\* unsynced records (a run that is under way is not joined by a second one).
\* Without the database getUnsyncedJawaban and processSyncQueue return at
\* once and the run is over before any other event is handled.
SyncAllCall ==
  LET cover == { n \in 1..Len(muts) : ~(ui.pc # "idle" /\ ui.mut = n) } IN
  IF sync.pc = "idle" /\ db
    THEN /\ sync' = [NoFlow EXCEPT !.op = "syncAll", !.pc = "sp", !.items = Unsynced, !.i = 1,
                                   !.cover = cover]
         /\ UNCHANGED covered
  ELSE IF sync.pc = "idle"
    THEN /\ covered' = covered \cup cover
         /\ UNCHANGED sync
  ELSE UNCHANGED <<sync, covered>>

\* setupIndexedDB: request.onsuccess / request.onerror, then init() sets the
\* timer when online
SetupIndexedDB ==
  /\ initPc = "opening"
  /\ \E opened \in BOOLEAN : db' = opened
  /\ initPc' = IF isOnline THEN "timer" ELSE "done"
  /\ UNCHANGED <<isOnline, cacheUser, lsUser, callOut, sbReq, pkgVars, imgVars, swVars, offVars, soalVars, jawabanVars, queueVars, callVars, ui, sync,
                 dlv, lastRet, covered, nevent, backendVars, resp>>

\* setTimeout(() => this.syncAll(), 2000)
InitTimer ==
  /\ initPc = "timer"
  /\ initPc' = "done"
  /\ IF isOnline THEN SyncAllCall ELSE UNCHANGED <<sync, covered>>
  /\ UNCHANGED <<isOnline, db, cacheUser, lsUser, callOut, sbReq, pkgVars, imgVars, swVars, offVars, soalVars, jawabanVars, queueVars, callVars, ui,
                 dlv, lastRet, nevent, backendVars, resp>>

\* window 'online': this.isOnline = true; this.syncAll()
Online ==
  /\ ~isOnline /\ nevent < MaxEvents
  /\ nevent' = nevent + 1
  /\ isOnline' = TRUE
  /\ SyncAllCall
  /\ UNCHANGED <<db, cacheUser, lsUser, callOut, sbReq, initPc, pkgVars, imgVars, swVars, offVars, soalVars, jawabanVars, queueVars, callVars, ui,
                 dlv, lastRet, backendVars, resp>>

\* window 'offline'
Offline ==
  /\ isOnline /\ nevent < MaxEvents
  /\ nevent' = nevent + 1
  /\ isOnline' = FALSE
  /\ UNCHANGED <<db, cacheUser, lsUser, callOut, sbReq, initPc, pkgVars, imgVars, swVars, offVars, soalVars, jawabanVars, queueVars, callVars, ui,
                 sync, dlv, lastRet, covered, backendVars, resp>>

\* the page is loaded again: the constructor and init() up to setupIndexedDB;
\* memory is gone, localStorage and IndexedDB stay, the responses of the
\* requests under way go nowhere
Reload ==
  /\ initPc = "done" /\ nevent < MaxEvents
  /\ nevent' = nevent + 1
  /\ \E o \in BOOLEAN : isOnline' = o
  /\ db' = FALSE
  /\ cacheUser' = lsUser
  /\ initPc' = "opening"
  /\ cacheSoal' = [m \in Subjects |-> <<>>]
  /\ cacheJawaban' = [m \in Subjects |-> <<>>]
  /\ syncQueue' = <<>>
  /\ ui' = NoFlow /\ sync' = NoFlow
  /\ resp' = [f \in Flows |-> <<>>]
  /\ reqs' = [k \in Slots |-> [reqs[k] EXCEPT !.flow = "none"]]
  /\ pkgTx' = <<>>
  /\ UNCHANGED <<exam_packages, questions, sessions, ndl, imgVars, swVars, offVars, callOut, sbReq, lsUser, lsSoal, idbSoal, warm, lsJawaban, idbJawaban, idbSyncQueue, enq, callVars,
                 dlv, lastRet, covered, serverVars, saved, initOk, kept, noMapel, gabOut>>

\* how a finishExam call ends.  result: "offline" ({success: true, offline:
\* true, message}), "result" (the body of the response, success: true).
\* saveJawaban always returns the id of its record.
Returned(op, result) == [op |-> op, thrown |-> FALSE, result |-> result]

\* submitFinalExam: catch (error) { throw error }
Thrown(op) == [op |-> op, thrown |-> TRUE, result |-> "none"]

\* ---- CacheManager.saveJawaban(mapelId, jawabanData) ----
\* (variant: localStorage is not written)
SaveJawabanLocalMemoryOnly ==
  \E m \in ClientSubjects :
    LET n == Len(muts) + 1
        s == StringOfCall(n)
    IN
    /\ ui.pc = "idle" /\ ncall < MaxCalls
    /\ ncall' = ncall + 1
    /\ cacheJawaban' = [cacheJawaban EXCEPT ![m] = <<s>>]
    /\ muts' = Append(muts, [type |-> "save", m |-> m, jwb |-> s, offline |-> ~isOnline,
                             begun |-> JawabanOf(UserId, m) # {}])
    /\ last' = [last EXCEPT ![m] = n]
    /\ ui' = [NoFlow EXCEPT !.op = "saveJawaban", !.pc = IF db THEN "s_put" ELSE "s_sync", !.m = m, !.jwb = s, !.mut = n]
    /\ UNCHANGED <<envVars, soalVars, lsJawaban, idbJawaban, queueVars, sync, dlv, lastRet,
                   covered, nevent, backendVars, resp>>

\* memory and localStorage, written before the first await; without the
\* database saveToIndexedDB and addToSyncQueue return at once
SaveJawabanLocal ==
  \E m \in ClientSubjects :
    LET n == Len(muts) + 1
        s == StringOfCall(n)
    IN
    /\ ui.pc = "idle" /\ ncall < MaxCalls
    /\ ncall' = ncall + 1
    /\ cacheJawaban' = [cacheJawaban EXCEPT ![m] = <<s>>]
    /\ lsJawaban' = [lsJawaban EXCEPT ![m] = <<s>>]
    /\ muts' = Append(muts, [type |-> "save", m |-> m, jwb |-> s, offline |-> ~isOnline,
                             begun |-> JawabanOf(UserId, m) # {}])
    /\ last' = [last EXCEPT ![m] = n]
    /\ ui' = [NoFlow EXCEPT !.op = "saveJawaban", !.pc = IF db THEN "s_put" ELSE "s_sync", !.m = m, !.jwb = s, !.mut = n]
    /\ UNCHANGED <<envVars, soalVars, idbJawaban, queueVars, sync, dlv, lastRet, covered, nevent,
                   backendVars, resp>>

\* await this.saveToIndexedDB('jawaban', data): store.put and its onsuccess
SaveJawabanPut ==
  /\ ui.pc = "s_put"
  /\ idbJawaban' = PutJawaban(idbJawaban,
                      [id |-> <<"save", ui.m, ui.mut>>, mapelId |-> ui.m,
                       jawabanString |-> ui.jwb, synced |-> FALSE, mut |-> ui.mut])
  /\ ui' = [ui EXCEPT !.pc = "s_queue"]
  /\ UNCHANGED <<envVars, soalVars, cacheJawaban, lsJawaban, queueVars, callVars, sync, dlv,
                 lastRet, covered, nevent, backendVars, resp>>

\* addToSyncQueue({type: 'save_jawaban', ...}): `if (!this.db) return`
SaveJawabanEnqueue ==
  /\ ui.pc = "s_queue"
  /\ IF db
       THEN /\ idbSyncQueue' = Append(idbSyncQueue,
                 [id |-> ui.mut, type |-> "save_jawaban", mapelId |-> ui.m,
                  jawabanString |-> ui.jwb, attempts |-> 0])
            /\ syncQueue' = Append(syncQueue, ui.mut)
            /\ enq' = enq \cup {ui.mut}
     ELSE UNCHANGED queueVars
  /\ ui' = [ui EXCEPT !.pc = "s_sync"]
  /\ UNCHANGED <<envVars, soalVars, jawabanVars, callVars, sync, dlv, lastRet, covered, nevent,
                 backendVars, resp>>

\* `if (this.isOnline) await this.syncJawaban(...)`; syncJawaban returns false
\* without a user, and when fetch throws
SaveJawabanSync ==
  /\ ui.pc = "s_sync"
  /\ \/ /\ isOnline /\ cacheUser
        /\ Fetch("ui", "save", ui.m, ui.jwb, "s_patch")
        /\ dlv' = Delivered(ui.mut, "save")
        /\ ui' = [ui EXCEPT !.pc = "s_wait"]
     \/ /\ ui' = NoFlow
        /\ UNCHANGED <<backendVars, resp, dlv>>
  /\ UNCHANGED <<envVars, soalVars, jawabanVars, queueVars, callVars, sync, lastRet, covered,
                 nevent>>

\* the response of save-jawaban: saveJawaban returns the id
SaveJawabanDone ==
  /\ ui.pc = "s_wait" /\ resp["ui"] # <<>>
  /\ ui' = NoFlow
  /\ resp' = [resp EXCEPT !["ui"] = <<>>]
  /\ UNCHANGED <<envVars, soalVars, jawabanVars, queueVars, callVars, sync, dlv, lastRet, covered,
                 nevent, backendVars>>

\* ---- CacheManager.finishExam(mapelId, jawabanData) ----
\* saveToIndexedDB('jawaban', {id: `final_${mapelId}`, ...}); without the
\* database it and addToSyncQueue return at once
FinishExamLocal ==
  \E m \in ClientSubjects :
    LET n == Len(muts) + 1
        s == StringOfCall(n)
    IN
    /\ ui.pc = "idle" /\ ncall < MaxCalls
    /\ ncall' = ncall + 1
    /\ idbJawaban' = IF db THEN PutJawaban(idbJawaban,
                                  [id |-> <<"final", m, 0>>, mapelId |-> m, jawabanString |-> s,
                                   synced |-> FALSE, mut |-> n])
                     ELSE idbJawaban
    /\ muts' = Append(muts, [type |-> "finish", m |-> m, jwb |-> s, offline |-> ~isOnline,
                             begun |-> JawabanOf(UserId, m) # {}])
    /\ last' = [last EXCEPT ![m] = n]
    /\ ui' = [NoFlow EXCEPT !.op = "finishExam", !.pc = IF db THEN "f_queue" ELSE "f_submit",
                             !.m = m, !.jwb = s, !.mut = n]
    /\ UNCHANGED <<envVars, soalVars, cacheJawaban, lsJawaban, queueVars, sync, dlv, lastRet,
                   covered, nevent, backendVars, resp>>

\* addToSyncQueue({type: 'finish_exam', ...})
FinishExamEnqueue ==
  /\ ui.pc = "f_queue"
  /\ IF db
       THEN /\ idbSyncQueue' = Append(idbSyncQueue,
                 [id |-> ui.mut, type |-> "finish_exam", mapelId |-> ui.m,
                  jawabanString |-> ui.jwb, attempts |-> 0])
            /\ syncQueue' = Append(syncQueue, ui.mut)
            /\ enq' = enq \cup {ui.mut}
     ELSE UNCHANGED queueVars
  /\ ui' = [ui EXCEPT !.pc = "f_submit"]
  /\ UNCHANGED <<envVars, soalVars, jawabanVars, callVars, sync, dlv, lastRet, covered, nevent,
                 backendVars, resp>>

\* `if (this.isOnline) return await this.submitFinalExam(...)`: the fetch, or
\* an exception (no user, fetch throws), or the offline result
FinishExamSubmit ==
  /\ ui.pc = "f_submit"
  /\ \/ /\ isOnline /\ cacheUser
        /\ Fetch("ui", "finish", ui.m, ui.jwb, "f_patch")
        /\ dlv' = Delivered(ui.mut, "finish")
        /\ ui' = [ui EXCEPT !.pc = "f_wait"]
        /\ UNCHANGED callOut
     \/ /\ ui' = NoFlow
        /\ callOut' = IF isOnline THEN <<Thrown("finishExam")>>
                      ELSE <<Returned("finishExam", "offline")>>
        /\ UNCHANGED <<backendVars, resp, dlv>>
  /\ UNCHANGED <<isOnline, db, cacheUser, lsUser, initPc, pkgVars, imgVars, swVars, offVars, sbReq, soalVars, jawabanVars, queueVars, callVars, sync, lastRet, covered,
                 nevent>>

\* submitFinalExam: `if (result.success) this.clearExamCache(mapelId)`
FinishExamDone ==
  /\ ui.pc = "f_wait" /\ resp["ui"] # <<>>
  /\ ClearExamCache(ui.m)
  /\ ui' = NoFlow
  /\ resp' = [resp EXCEPT !["ui"] = <<>>]
  /\ callOut' = <<Returned("finishExam", "result")>>
  /\ UNCHANGED <<isOnline, db, cacheUser, lsUser, initPc, pkgVars, imgVars, swVars, offVars, sbReq, queueVars, callVars, sync, dlv, lastRet, covered, nevent, backendVars>>

\* ---- CacheFirstAPI.getSoal(mapelId, forceRefresh) ----
\* `if (!forceRefresh)`: the cached set is returned, a hit in a slower tier
\* fills the memory tier
\* (variant: the memory and localStorage tiers are not consulted)
GetSoalCallIndexedDBOnly(m, forceRefresh) ==
  /\ ui.pc = "idle"
  /\ IF ~forceRefresh /\ db /\ idbSoal[m] # <<>>
       THEN /\ cacheSoal' = [cacheSoal EXCEPT ![m] = idbSoal[m]]
            /\ lastRet' = [m |-> m, data |-> idbSoal[m], source |-> "indexedDB", offline |-> FALSE]
            /\ UNCHANGED <<ui, ncall>>
     ELSE /\ ncall < MaxCalls
          /\ ncall' = ncall + 1
          /\ ui' = [NoFlow EXCEPT !.op = "getSoal", !.pc = "g_fetch", !.m = m,
                                  !.force = forceRefresh]
          /\ UNCHANGED <<cacheSoal, lastRet>>
  /\ UNCHANGED <<envVars, lsSoal, idbSoal, warm, jawabanVars, queueVars, muts, last, sync, dlv,
                 covered, nevent, backendVars, resp>>

\* (a call answered from the cache sends no request and is not counted among
\* the MaxCalls calls)
GetSoalCall(m, forceRefresh) ==
  /\ ui.pc = "idle"
  /\ LET cached == CacheGetSoal(m) IN
     IF ~forceRefresh /\ cached.data # <<>>
       THEN /\ cacheSoal' = [cacheSoal EXCEPT ![m] = cached.data]
            /\ lastRet' = [m |-> m, data |-> cached.data, source |-> cached.source,
                         offline |-> FALSE]
            /\ UNCHANGED <<ui, ncall>>
     ELSE /\ ncall < MaxCalls
          /\ ncall' = ncall + 1
          /\ ui' = [NoFlow EXCEPT !.op = "getSoal", !.pc = "g_fetch", !.m = m,
                                  !.force = forceRefresh]
          /\ UNCHANGED <<cacheSoal, lastRet>>
  /\ UNCHANGED <<envVars, lsSoal, idbSoal, warm, jawabanVars, queueVars, muts, last, sync, dlv,
                 covered, nevent, backendVars, resp>>

\* the fetch of /get-soal; without a user or when fetch throws, the catch
\* block returns the cached set if the page is offline and throws otherwise
GetSoalFetch ==
  /\ ui.pc = "g_fetch"
  /\ \/ /\ isOnline /\ cacheUser
        /\ Fetch("ui", "getsoal", ui.m, <<>>, "g_read")
        /\ ui' = [ui EXCEPT !.pc = "g_wait"]
        /\ UNCHANGED <<cacheSoal, lastRet>>
     \/ /\ ui' = NoFlow
        /\ LET cached == CacheGetSoal(ui.m) IN
           IF ~isOnline /\ cached.data # <<>>
             THEN /\ cacheSoal' = [cacheSoal EXCEPT ![ui.m] = cached.data]
                  /\ lastRet' = [m |-> ui.m, data |-> cached.data, source |-> cached.source,
                               offline |-> TRUE]
           ELSE /\ lastRet' = [m |-> ui.m, data |-> <<>>, source |-> "error", offline |-> FALSE]
                /\ UNCHANGED cacheSoal
        /\ UNCHANGED <<backendVars, resp>>
  /\ UNCHANGED <<envVars, lsSoal, idbSoal, warm, jawabanVars, queueVars, callVars, sync, dlv,
                 covered, nevent>>

\* `if (data.success)`: memory, localStorage, saveToIndexedDB('soal', ...)
GetSoalStore ==
  /\ ui.pc = "g_wait" /\ resp["ui"] # <<>>
  /\ cacheSoal' = [cacheSoal EXCEPT ![ui.m] = resp["ui"]]
  /\ lsSoal' = [lsSoal EXCEPT ![ui.m] = resp["ui"]]
  /\ idbSoal' = IF db THEN [idbSoal EXCEPT ![ui.m] = resp["ui"]] ELSE idbSoal
  /\ warm' = [warm EXCEPT ![ui.m] = resp["ui"]]
  /\ lastRet' = [m |-> ui.m, data |-> resp["ui"], source |-> "network", offline |-> FALSE]
  /\ ui' = NoFlow
  /\ resp' = [resp EXCEPT !["ui"] = <<>>]
  /\ UNCHANGED <<envVars, jawabanVars, queueVars, callVars, sync, dlv, covered, nevent,
                 backendVars>>

\* ---- syncAll: syncPendingJawaban ----
\* syncJawaban(item.mapelId, item.jawabanData) of the next unsynced record:
\* the fetch; when it returns false at once, markAsSynced(item.id) follows
SyncPendingSend ==
  /\ sync.pc = "sp" /\ sync.i <= Len(sync.items)
  /\ LET item == sync.items[sync.i] IN
     \/ /\ isOnline /\ cacheUser
        /\ Fetch("sync", "save", item.mapelId, item.jawabanString, "s_patch")
        /\ dlv' = Delivered(item.mut, "save")
        /\ sync' = [sync EXCEPT !.pc = "sp_wait"]
        /\ UNCHANGED idbJawaban
     \/ /\ idbJawaban' = MarkAsSynced(idbJawaban, item.id)
        /\ sync' = [sync EXCEPT !.i = sync.i + 1]
        /\ UNCHANGED <<backendVars, resp, dlv>>
  /\ UNCHANGED <<envVars, soalVars, cacheJawaban, lsJawaban, queueVars, callVars, ui, lastRet,
                 covered, nevent>>

\* the response of save-jawaban, then markAsSynced(item.id)
SyncPendingMark ==
  /\ sync.pc = "sp_wait" /\ resp["sync"] # <<>>
  /\ idbJawaban' = MarkAsSynced(idbJawaban, sync.items[sync.i].id)
  /\ sync' = [sync EXCEPT !.pc = "sp", !.i = sync.i + 1]
  /\ resp' = [resp EXCEPT !["sync"] = <<>>]
  /\ UNCHANGED <<envVars, soalVars, cacheJawaban, lsJawaban, queueVars, callVars, ui, dlv, lastRet,
                 covered, nevent, backendVars>>

\* ---- syncAll: processSyncQueue ----
\* `if (!this.db) return`, else the cursor collects the entries
ProcessSyncQueue ==
  /\ sync.pc = "sp" /\ sync.i > Len(sync.items)
  /\ sync' = [sync EXCEPT !.pc = "q", !.items = IF db THEN idbSyncQueue ELSE <<>>, !.i = 1]
  /\ UNCHANGED <<envVars, soalVars, jawabanVars, queueVars, callVars, ui, dlv, lastRet, covered,
                 nevent, backendVars, resp>>

\* processQueueItem(item): the fetch of the item's route.  syncJawaban that
\* returns false is followed by removeFromSyncQueue; submitFinalExam that
\* throws by attempts + 1 and, below the ceiling, updateSyncQueueItem
ProcessQueueItemSend ==
  /\ sync.pc = "q" /\ sync.i <= Len(sync.items)
  /\ LET item == sync.items[sync.i]
         failed == [item EXCEPT !.attempts = item.attempts + 1]
     IN
     \/ /\ item.type = "save_jawaban" /\ isOnline /\ cacheUser
        /\ Fetch("sync", "save", item.mapelId, item.jawabanString, "s_patch")
        /\ dlv' = Delivered(item.id, "save")
        /\ sync' = [sync EXCEPT !.pc = "q_wait"]
        /\ UNCHANGED idbSyncQueue
     \/ /\ item.type = "finish_exam" /\ isOnline /\ cacheUser
        /\ Fetch("sync", "finish", item.mapelId, item.jawabanString, "f_patch")
        /\ dlv' = Delivered(item.id, "finish")
        /\ sync' = [sync EXCEPT !.pc = "q_wait"]
        /\ UNCHANGED idbSyncQueue
     \/ /\ item.type = "save_jawaban"
        /\ idbSyncQueue' = RemoveFromSyncQueue(idbSyncQueue, item.id)
        /\ sync' = [sync EXCEPT !.i = sync.i + 1]
        /\ UNCHANGED <<backendVars, resp, dlv>>
     \/ /\ item.type = "finish_exam"
        /\ idbSyncQueue' = IF failed.attempts < MaxAttempts
                             THEN UpdateSyncQueueItem(idbSyncQueue, failed)
                           ELSE idbSyncQueue
        /\ sync' = [sync EXCEPT !.i = sync.i + 1]
        /\ UNCHANGED <<backendVars, resp, dlv>>
  /\ UNCHANGED <<envVars, soalVars, jawabanVars, syncQueue, enq, callVars, ui, lastRet, covered,
                 nevent>>

\* the response: clearExamCache for finish_exam, then removeFromSyncQueue
ProcessQueueItemDone ==
  /\ sync.pc = "q_wait" /\ resp["sync"] # <<>>
  /\ LET item == sync.items[sync.i] IN
     /\ IF item.type = "finish_exam"
          THEN ClearExamCache(item.mapelId)
        ELSE UNCHANGED <<soalVars, jawabanVars>>
     /\ idbSyncQueue' = RemoveFromSyncQueue(idbSyncQueue, item.id)
  /\ sync' = [sync EXCEPT !.pc = "q", !.i = sync.i + 1]
  /\ resp' = [resp EXCEPT !["sync"] = <<>>]
  /\ UNCHANGED <<envVars, syncQueue, enq, callVars, ui, dlv, lastRet, covered, nevent, backendVars>>

\* syncAll returns
SyncAllDone ==
  /\ sync.pc = "q" /\ sync.i > Len(sync.items)
  /\ sync' = NoFlow
  /\ covered' = covered \cup sync.cover
  /\ UNCHANGED <<envVars, soalVars, jawabanVars, queueVars, callVars, ui, dlv, lastRet, nevent,
                 backendVars, resp>>

\* a request arrives and runs up to its first access to the store
\* (POST /init-gabungan calls initJawabanGabungan at once)
Arrive(limit, P, S) ==
  \E k \in Slots, p \in P :
    /\ CanStart(k, limit)
    /\ nreq' = nreq + 1
    /\ UNCHANGED clientVars
    /\ \/ Step(k, CallInit(NewReq("init", p, 0, <<>>, "i_start"), "done"))
       \/ \E m \in Subjects : Step(k, NewReq("getsoal", p, m, <<>>, "g_read"))
       \/ \E m \in Subjects, s \in S : Step(k, NewReq("save", p, m, s, "s_patch"))
       \/ \E m \in Subjects, s \in S : Step(k, NewReq("finish", p, m, s, "f_patch"))

\* GET /jawaban-gabungan arrives
ArriveGet(limit, P) ==
  \E k \in Slots, p \in P :
    /\ CanStart(k, limit)
    /\ nreq' = nreq + 1
    /\ UNCHANGED clientVars
    /\ Step(k, NewReq("getgab", p, 0, <<>>, "gg_read"))

\* the chunk indexes and the chunk_data arrays of the requests
ChunkIndexes == {0, 1}
ChunkData == { << <<"A">> >>, << Null, <<"B">> >> }

\* a request to a chunked route arrives
ArriveChunk(limit, P) ==
  \E k \in Slots, p \in P, m \in Subjects :
    /\ CanStart(k, limit)
    /\ nreq' = nreq + 1
    /\ UNCHANGED clientVars
    /\ \/ Step(k, ChunkReq("getchunk", p, m, 0, <<>>, "gc_read"))
       \/ \E c \in ChunkIndexes, d \in ChunkData :
            Step(k, ChunkReq("savechunk", p, m, c, d, "sc_read"))

\* a running request takes its next step
Continue ==
  \E k \in Slots :
    /\ reqs[k].pc # "idle"
    /\ UNCHANGED <<nreq, clientVars>>
    /\ Step(k, reqs[k])

InitWith(layouts) ==
  /\ \E b \in layouts : bank_soal = b.soal /\ mata_pelajaran = b.siap
  /\ soal_mapping_gabungan = EmptyBag
  /\ jawaban_gabungan = EmptyBag
  /\ jawaban = EmptyBag
  /\ reqs = [k \in Slots |-> NoReq]
  /\ nreq = 0
  /\ applied = [x \in Peserta \X Subjects |-> <<>>]
  /\ saved = [x \in Peserta \X Subjects |-> <<>>]
  /\ genLog = {}
  /\ initOk = FALSE
  /\ kept = FALSE
  /\ noMapel = FALSE
  /\ gabOut = <<>>
  /\ isOnline = TRUE /\ db = FALSE /\ cacheUser = TRUE /\ lsUser = TRUE
  /\ exam_packages = {} /\ questions = {} /\ sessions = {} /\ pkgTx = <<>> /\ ndl = 0
  /\ images = {} /\ tick = 0 /\ openUrls = {} /\ evict = <<>>
  /\ swReq = <<>> /\ apiCache = {} /\ swOut = <<>> /\ nfetch = 0
  /\ callOut = <<>>
  /\ sbReq = <<>>
  /\ temp_answers = [q \in QuestionIds |-> <<>>]
  /\ tsync = <<>>
  /\ ackd = [q \in QuestionIds |-> <<>>]
  /\ peserta = <<>>
  /\ participants = <<>>
  /\ loginOut = <<>>
  /\ initPc = "opening"
  /\ cacheSoal = [m \in Subjects |-> <<>>]
  /\ lsSoal = [m \in Subjects |-> <<>>]
  /\ idbSoal = [m \in Subjects |-> <<>>]
  /\ cacheJawaban = [m \in Subjects |-> <<>>]
  /\ lsJawaban = [m \in Subjects |-> <<>>]
  /\ idbJawaban = <<>>
  /\ idbSyncQueue = <<>>
  /\ syncQueue = <<>>
  /\ ui = NoFlow /\ sync = NoFlow
  /\ resp = [f \in Flows |-> <<>>]
  /\ muts = <<>>
  /\ last = [m \in Subjects |-> 0]
  /\ enq = {}
  /\ dlv = <<>>
  /\ warm = [m \in Subjects |-> <<>>]
  /\ lastRet = [m |-> 0, data |-> <<>>, source |-> "none", offline |-> FALSE]
  /\ covered = {}
  /\ ncall = 0
  /\ nevent = 0

\* the handlers of concurrent requests interleave at their awaits
Init == InitWith(ParLayouts)
Next == Arrive(MaxInFlight, ParPeserta, ParStrings) \/ Continue

Spec == Init /\ [][Next]_vars

\* reads of the CombinedAnswer among the other requests
GabNext == Arrive(MaxInFlight, ParPeserta, ParStrings) \/ ArriveGet(MaxInFlight, ParPeserta) \/ Continue

GabSpec == Init /\ [][GabNext]_vars

\* the chunked routes under concurrent requests
ChunkNext == ArriveChunk(MaxInFlight, ParPeserta) \/ Continue

ChunkSpec == Init /\ [][ChunkNext]_vars

\* one request after another
SeqInit == InitWith(BankLayouts)
SeqNext == Arrive(1, Peserta, AnswerStrings) \/ Continue

SeqSpec == SeqInit /\ [][SeqNext]_vars

\* the requests of one participant, one after another
RowNext == Arrive(1, ParPeserta, AnswerStrings) \/ Continue

RowSpec == SeqInit /\ [][RowNext]_vars

\* the page of participant UserId and the backend that serves its requests
ClientInit == InitWith(ParLayouts)
\* (a handler that has started runs to its response before the page takes
\* its next step; handlers that overlap are the subject of Spec)
ClientNext ==
  \/ Busy = {} /\ SetupIndexedDB
  \/ Busy = {} /\ InitTimer
  \/ Busy = {} /\ Online
  \/ Busy = {} /\ Offline
  \/ Busy = {} /\ Reload
  \/ Busy = {} /\ SaveJawabanLocal
  \/ Busy = {} /\ SaveJawabanPut
  \/ Busy = {} /\ SaveJawabanEnqueue
  \/ Busy = {} /\ SaveJawabanSync
  \/ Busy = {} /\ SaveJawabanDone
  \/ Busy = {} /\ FinishExamLocal
  \/ Busy = {} /\ FinishExamEnqueue
  \/ Busy = {} /\ FinishExamSubmit
  \/ Busy = {} /\ FinishExamDone
  \/ Busy = {} /\ \E m \in ClientSubjects, forceRefresh \in BOOLEAN : GetSoalCall(m, forceRefresh)
  \/ Busy = {} /\ GetSoalFetch
  \/ Busy = {} /\ GetSoalStore
  \/ Busy = {} /\ SyncPendingSend
  \/ Busy = {} /\ SyncPendingMark
  \/ Busy = {} /\ ProcessSyncQueue
  \/ Busy = {} /\ ProcessQueueItemSend
  \/ Busy = {} /\ ProcessQueueItemDone
  \/ Busy = {} /\ SyncAllDone
  \/ Continue

ClientSpec == ClientInit /\ [][ClientNext]_vars

\* the page that only reads the questions: with no answer saved and no exam
\* finished, syncAll finds no unsynced record and no queue entry
CacheNext ==
  \/ Busy = {} /\ SetupIndexedDB
  \/ Busy = {} /\ InitTimer
  \/ Busy = {} /\ Online
  \/ Busy = {} /\ Offline
  \/ Busy = {} /\ Reload
  \/ Busy = {} /\ \E m \in ClientSubjects, forceRefresh \in BOOLEAN : GetSoalCall(m, forceRefresh)
  \/ Busy = {} /\ GetSoalFetch
  \/ Busy = {} /\ GetSoalStore
  \/ Busy = {} /\ ProcessSyncQueue
  \/ Busy = {} /\ SyncAllDone
  \/ Continue

CacheSpec == ClientInit /\ [][CacheNext]_vars

(***************************************************************************)
(* ExamCacheManager.saveExamPackage(agendaId, packageData): one readwrite  *)
(* transaction over 'exam_packages', 'questions' and 'sessions'.           *)
(***************************************************************************)
\* the keys [mapel_id, id] a package of the agenda can hold
QuestionKeys == {<<1, 1>>, <<1, 2>>, <<2, 1>>}

\* packageData of download d: questions_by_mapel with the questions qs
PackageData(d, qs) == [download |-> d, questions_by_mapel |-> qs]

\* the records saveExamPackage puts into 'questions'
QuestionRecords(packageData) ==
  { [mapel_id |-> q[1], id |-> q[2], download |-> packageData.download] :
      q \in packageData.questions_by_mapel }

\* store.put(record) on the key path [agenda_id, mapel_id, id]
PutQuestions(store, records) ==
  { x \in store : \A y \in records : <<x.mapel_id, x.id>> # <<y.mapel_id, y.id>> } \cup records

\* the call: the transaction is opened and the three kinds of put are requested
SaveExamPackage ==
  /\ pkgTx = <<>> /\ ndl < MaxDownloads
  /\ ndl' = ndl + 1
  /\ \E qs \in SUBSET QuestionKeys \ {{}} : pkgTx' = <<PackageData(ndl + 1, qs)>>
  /\ UNCHANGED <<exam_packages, questions, sessions>>
  /\ UNCHANGED <<isOnline, db, cacheUser, lsUser, callOut, sbReq, initPc, imgVars, swVars, offVars, soalVars, jawabanVars,
                 queueVars, callVars, ui, sync, dlv, lastRet, covered, nevent, backendVars, resp>>

\* tx.oncomplete: every put of the transaction is in the stores
SaveExamPackageComplete ==
  /\ pkgTx # <<>>
  /\ exam_packages' = {[agenda_id |-> 1, data |-> pkgTx[1]]}
  /\ questions' = PutQuestions(questions, QuestionRecords(pkgTx[1]))
  /\ sessions' = {[session_id |-> 1, package_data |-> pkgTx[1]]}
  /\ pkgTx' = <<>>
  /\ UNCHANGED ndl
  /\ UNCHANGED <<isOnline, db, cacheUser, lsUser, callOut, sbReq, initPc, imgVars, swVars, offVars, soalVars, jawabanVars,
                 queueVars, callVars, ui, sync, dlv, lastRet, covered, nevent, backendVars, resp>>

\* tx.onerror, or the page goes away before the transaction has committed:
\* the transaction is aborted and none of its puts is in the stores
SaveExamPackageAbort ==
  /\ pkgTx # <<>>
  /\ pkgTx' = <<>>
  /\ UNCHANGED <<exam_packages, questions, sessions, ndl>>
  /\ UNCHANGED <<isOnline, db, cacheUser, lsUser, callOut, sbReq, initPc, imgVars, swVars, offVars, soalVars, jawabanVars,
                 queueVars, callVars, ui, sync, dlv, lastRet, covered, nevent, backendVars, resp>>

PackageNext == SaveExamPackage \/ SaveExamPackageComplete \/ SaveExamPackageAbort

PackageSpec == ClientInit /\ [][PackageNext]_vars

(***************************************************************************)
(* supabaseRequest(path, method, query, body, retries): the loop over the  *)
(* attempts, in its two versions.                                          *)
(***************************************************************************)
nonSbVars == <<isOnline, db, cacheUser, lsUser, callOut, initPc, pkgVars, imgVars, swVars, offVars,
               soalVars, jawabanVars, queueVars, callVars, ui, sync, dlv, lastRet, covered,
               nevent, backendVars, resp>>

\* what an attempt can end in: a JSON body, 204, 429, another 4xx, a 5xx, or
\* fetch throws
Outcomes == {"json", "204", "429", "4xx", "5xx", "network"}
Transient == {"429", "5xx", "network"}

\* the default of the parameter retries
Retries(ver) == IF ver = "index" THEN RetriesIndex ELSE RetriesEnhanced
\* the first and the last value of the loop variable
FirstAttempt(ver) == IF ver = "index" THEN 0 ELSE 1
LastAttempt(ver) == Retries(ver)

\* a handler calls supabaseRequest
SupabaseRequest ==
  /\ IF sbReq = <<>> THEN TRUE ELSE sbReq[1].out # "running"
  /\ \E ver \in {"index", "enhanced"} :
       sbReq' = <<[ver |-> ver, i |-> FirstAttempt(ver), log |-> <<>>, out |-> "running"]>>
  /\ UNCHANGED nonSbVars

\* the loop goes on with the next value of the loop variable; past the last
\* one the function body ends without a return statement
Continued(c, o) ==
  [c EXCEPT !.i = c.i + 1, !.log = Append(c.log, o),
            !.out = IF c.i + 1 > LastAttempt(c.ver) THEN "undefined" ELSE "running"]

\* catch (error): `if (i === retries) throw error`, else wait and loop
Caught(c, o) ==
  IF c.i = LastAttempt(c.ver)
    THEN [c EXCEPT !.log = Append(c.log, o), !.out = "thrown"]
  ELSE Continued(c, o)

\* one pass of the loop of api/index.js: 429 waits and continues, any other
\* status that is not ok throws inside the try
AttemptIndex(c, o) ==
  IF o = "json" THEN [c EXCEPT !.log = Append(c.log, o), !.out = "data"]
  ELSE IF o = "204" THEN [c EXCEPT !.log = Append(c.log, o), !.out = "null"]
  ELSE IF o = "429" THEN Continued(c, o)
  ELSE Caught(c, o)

\* one pass of the loop of the enhanced version: 429 waits and continues, a
\* 4xx throws inside the try, a 5xx continues before the last attempt and
\* throws at the last
AttemptEnhanced(c, o) ==
  IF o = "json" THEN [c EXCEPT !.log = Append(c.log, o), !.out = "data"]
  ELSE IF o = "204" THEN [c EXCEPT !.log = Append(c.log, o), !.out = "null"]
  ELSE IF o = "429" THEN Continued(c, o)
  ELSE IF o = "5xx" /\ c.i < Retries(c.ver) THEN Continued(c, o)
  ELSE Caught(c, o)

\* const response = await fetch(url, options) and the rest of the pass
SupabaseAttempt ==
  /\ sbReq # <<>> /\ sbReq[1].out = "running"
  /\ \E o \in Outcomes :
       sbReq' = <<IF sbReq[1].ver = "index" THEN AttemptIndex(sbReq[1], o)
                  ELSE AttemptEnhanced(sbReq[1], o)>>
  /\ UNCHANGED nonSbVars

RetryNext == SupabaseRequest \/ SupabaseAttempt

RetrySpec == ClientInit /\ [][RetryNext]_vars

(***************************************************************************)
(* ExamCacheManager: the image store and its eviction.                     *)
(***************************************************************************)
\* the other variables of the page and of the backend
nonImgVars == <<isOnline, db, cacheUser, lsUser, callOut, sbReq, initPc, pkgVars, swVars, offVars, soalVars, jawabanVars,
                queueVars, callVars, ui, sync, dlv, lastRet, covered, nevent, backendVars, resp>>

\* gambar_url of a question: the image of question [mapel_id, id]
GambarUrl(q) == <<q.mapel_id, q.id>>

\* the transaction of the cursor holds the store: no other transaction on
\* 'images' runs before it has completed
ImagesFree == evict = <<>>

\* cacheImage(url, blob): store.put with cached_at and last_accessed = Date.now()
CacheImage(url) ==
  /\ ImagesFree /\ tick < MaxTick
  /\ tick' = tick + 1
  /\ images' = {x \in images : x.url # url} \cup {[url |-> url, last_accessed |-> tick + 1]}
  /\ UNCHANGED <<openUrls, evict, nonImgVars>>

\* getCachedImage(url): updateImageAccessTime(url) when the image is stored
GetCachedImage(url) ==
  /\ ImagesFree /\ tick < MaxTick
  /\ \E x \in images : x.url = url
  /\ tick' = tick + 1
  /\ images' = {x \in images : x.url # url} \cup {[url |-> url, last_accessed |-> tick + 1]}
  /\ UNCHANGED <<openUrls, evict, nonImgVars>>

\* getQuestionsByMapel(agendaId, mapelId): the questions of the subject are
\* handed to the page, which shows them
GetQuestionsByMapel(m) ==
  /\ openUrls' = {GambarUrl(q) : q \in {x \in questions : x.mapel_id = m}}
  /\ openUrls' # openUrls
  /\ UNCHANGED <<images, tick, evict, nonImgVars>>

\* getCacheSize: the sum over the cursors of the three stores, as far as they
\* have got when the 100 ms timer resolves it
CacheSizes == 0..(Cardinality(exam_packages) + Cardinality(questions) + Cardinality(images))

\* init(): cleanupOldCache calls deleteOldestCache, which opens its cursor on
\* the index 'last_accessed', when the size is above maxCacheSize
CleanupOldCache ==
  /\ ImagesFree
  /\ \E size \in CacheSizes : size > MaxCacheSize
  /\ evict' = <<0>>
  /\ UNCHANGED <<images, tick, openUrls, nonImgVars>>

\* request.onsuccess of the cursor: the image with the smallest last_accessed
\* is deleted, up to DeleteCount images
DeleteOldestCache ==
  /\ evict # <<>>
  /\ IF images # {} /\ evict[1] < DeleteCount
       THEN /\ \E x \in images :
                 /\ \A y \in images : x.last_accessed <= y.last_accessed
                 /\ images' = images \ {x}
            /\ evict' = <<evict[1] + 1>>
     ELSE /\ evict' = <<>>
          /\ UNCHANGED images
  /\ UNCHANGED <<tick, openUrls, nonImgVars>>

ImageNext ==
  \/ SaveExamPackage
  \/ SaveExamPackageComplete
  \/ \E url \in QuestionKeys : CacheImage(url)
  \/ \E url \in QuestionKeys : GetCachedImage(url)
  \/ \E m \in Subjects : GetQuestionsByMapel(m)
  \/ CleanupOldCache
  \/ DeleteOldestCache

ImageSpec == ClientInit /\ [][ImageNext]_vars

(***************************************************************************)
(* ExamCacheManager: the store 'temp_answers' of one (agenda, mapel).      *)
(***************************************************************************)
nonTmpVars == <<isOnline, db, cacheUser, lsUser, callOut, sbReq, initPc, pkgVars, imgVars, swVars,
                loginVars, soalVars, jawabanVars, queueVars, callVars, ui, sync, dlv, lastRet,
                covered, nevent, backendVars, resp>>

\* saveAnswer(agendaId, mapelId, questionId, answer): store.put of the record
\* with synced: false
SaveAnswer(questionId, answer) ==
  /\ temp_answers' = [temp_answers EXCEPT
                        ![questionId] = <<[answer |-> answer, synced |-> FALSE]>>]
  /\ temp_answers' # temp_answers
  /\ UNCHANGED <<tsync, ackd, nonTmpVars>>

\* the result of getUnsyncedAnswers: question_id -> answer of the records
\* with synced false
UnsyncedAnswers ==
  LET ids == { q \in QuestionIds : temp_answers[q] # <<>> /\ ~temp_answers[q][1].synced }
  IN [q \in ids |-> temp_answers[q][1].answer]

\* getUnsyncedAnswers(agendaId, mapelId): a sync starts with the answers read
GetUnsyncedAnswers ==
  /\ tsync = <<>>
  /\ DOMAIN UnsyncedAnswers # {}
  /\ tsync' = <<[unsynced |-> UnsyncedAnswers, pc |-> "sending"]>>
  /\ UNCHANGED <<temp_answers, ackd, nonTmpVars>>

\* the answers read are delivered and the server acknowledges them, or the
\* delivery fails and nothing is marked
SyncDelivery ==
  /\ tsync # <<>> /\ tsync[1].pc = "sending"
  /\ \/ /\ ackd' = [q \in QuestionIds |->
                      IF q \in DOMAIN tsync[1].unsynced THEN <<tsync[1].unsynced[q]>>
                      ELSE ackd[q]]
        /\ tsync' = <<[tsync[1] EXCEPT !.pc = "marking"]>>
     \/ /\ tsync' = <<>>
        /\ UNCHANGED ackd
  /\ UNCHANGED <<temp_answers, nonTmpVars>>

\* markAnswersAsSynced(agendaId, mapelId, questionIds): the record of every
\* question id, when there is one, is put back with synced = true
MarkAnswersAsSynced ==
  /\ tsync # <<>> /\ tsync[1].pc = "marking"
  /\ temp_answers' = [q \in QuestionIds |->
                        IF q \in DOMAIN tsync[1].unsynced /\ temp_answers[q] # <<>>
                          THEN <<[temp_answers[q][1] EXCEPT !.synced = TRUE]>>
                        ELSE temp_answers[q]]
  /\ tsync' = <<>>
  /\ UNCHANGED <<ackd, nonTmpVars>>

TempNext ==
  \/ \E questionId \in QuestionIds, answer \in TempValues : SaveAnswer(questionId, answer)
  \/ GetUnsyncedAnswers
  \/ SyncDelivery
  \/ MarkAnswersAsSynced

TempSpec == ClientInit /\ [][TempNext]_vars

(***************************************************************************)
(* Offline login: createSimpleHash of the exam-package route and           *)
(* OfflineValidator.  A 32-bit integer is the pair <<high, low>> of its    *)
(* 16-bit halves (two's complement).                                       *)
(***************************************************************************)
nonLoginVars == <<isOnline, db, cacheUser, lsUser, callOut, sbReq, initPc, pkgVars, imgVars, swVars,
                  tmpVars, soalVars, jawabanVars, queueVars, callVars, ui, sync, dlv, lastRet,
                  covered, nevent, backendVars, resp>>

\* str.charCodeAt(i)
CharCode(c) ==
  CASE c = "u" -> 117 [] c = "p" -> 112 [] c = "q" -> 113 [] c = "x" -> 120
    [] c = "1" -> 49 [] c = ":" -> 58

\* hash = ((hash << 5) - hash) + char; hash = hash & hash
HashStep(hash, char) ==
  LET low == 31 * hash[2] + char
  IN << (31 * hash[1] + low \div 65536) % 65536, low % 65536 >>

\* the loop over the characters of str, from hash = 0
RECURSIVE HashLoop(_, _)
HashLoop(hash, str) ==
  IF str = <<>> THEN hash ELSE HashLoop(HashStep(hash, CharCode(Head(str))), Tail(str))

\* Math.abs(hash)
Abs32(hash) ==
  IF hash[1] < 32768 THEN hash
  ELSE << (65535 - hash[1] + (IF hash[2] = 0 THEN 1 ELSE 0)) % 65536,
          (65536 - hash[2]) % 65536 >>

HexDigit(d) == <<"0", "1", "2", "3", "4", "5", "6", "7",
                "8", "9", "a", "b", "c", "d", "e", "f">>[d + 1]

\* the four hexadecimal digits of a 16-bit half
Hex16(n) ==
  << HexDigit(n \div 4096), HexDigit((n \div 256) % 16),
     HexDigit((n \div 16) % 16), HexDigit(n % 16) >>

RECURSIVE DropZeros(_)
DropZeros(ds) ==
  IF Len(ds) > 1 /\ Head(ds) = "0" THEN DropZeros(Tail(ds)) ELSE ds

\* Math.abs(hash).toString(16).substring(0, 8)
HexString(hash) ==
  LET ds == DropZeros(Hex16(Abs32(hash)[1]) \o Hex16(Abs32(hash)[2]))
  IN SubSeq(ds, 1, IF Len(ds) < 8 THEN Len(ds) ELSE 8)

\* createSimpleHash(str) of the backend
CreateSimpleHash(str) == HexString(HashLoop(<<0, 0>>, str))

\* hashCredentials(username, password) of the page
HashCredentials(username, password) ==
  HexString(HashLoop(<<0, 0>>, username \o <<":">> \o password))

\* GET /exam-package builds peserta_list from the rows of the participants,
\* and OfflineValidator.init fills this.participants from the package
LoadPackage ==
  /\ participants = <<>>
  /\ \E rows \in [Usernames -> Passwords] :
       /\ peserta' = rows
       /\ participants' = [u \in Usernames |->
                             [password_hash |-> CreateSimpleHash(u \o rows[u])]]
  /\ UNCHANGED <<loginOut, nonLoginVars>>

\* validateLogin(username, password)
ValidateLogin(username, password) ==
  /\ loginOut' = <<[username |-> username, password |-> password,
                    valid |-> /\ username # <<>> /\ password # <<>>
                              /\ username \in DOMAIN participants
                              /\ participants[username].password_hash
                                   = HashCredentials(username, password),
                    message |-> IF username = <<>> \/ password = <<>>
                                  THEN "Username dan password harus diisi"
                                ELSE IF username \notin DOMAIN participants
                                  THEN "Username tidak terdaftar"
                                ELSE IF participants[username].password_hash
                                          = HashCredentials(username, password)
                                  THEN "Login berhasil (offline mode)"
                                ELSE "Password salah"]>>
  /\ loginOut' # loginOut
  /\ UNCHANGED <<peserta, participants, nonLoginVars>>

LoginNext ==
  \/ LoadPackage
  \/ \E username \in Usernames \cup {<<>>, <<"x">>}, password \in Passwords \cup {<<>>} :
       ValidateLogin(username, password)

LoginSpec == ClientInit /\ [][LoginNext]_vars

(***************************************************************************)
(* The responses of the API as the page receives them: the route handlers  *)
(* and handleApiRequest of the service worker.                             *)
(***************************************************************************)
nonSwVars == <<isOnline, db, cacheUser, lsUser, callOut, sbReq, initPc, pkgVars, imgVars, offVars, soalVars, jawabanVars,
               queueVars, callVars, ui, sync, dlv, lastRet, covered, nevent, backendVars, resp>>

\* the requests of the page: route, method and whether the required fields
\* of the body are there
ApiRequests ==
  [route : {"save-jawaban", "submit-batch"}, method : {"POST"}, valid : BOOLEAN]
    \cup {[route |-> "health", method |-> "GET", valid |-> TRUE]}

\* the responses of the handler of a route: 400 for a body without the
\* required fields, 500 from the catch block when a request to the store
\* throws, 200 otherwise
HandlerResponses(rq) ==
  IF rq.route = "health"
    THEN {[status |-> 200, body |-> [success |-> TRUE, status |-> "operational"]]}
  ELSE IF ~rq.valid
    THEN {[status |-> 400, body |-> [success |-> FALSE, message |-> "wajib"]]}
  ELSE {[status |-> 200, body |-> [success |-> TRUE]],
        [status |-> 500, body |-> [success |-> FALSE, message |-> "e.message"]]}

\* the response of handleApiRequest when neither the network nor the cache
\* has one
OfflineResponse ==
  [status |-> 503,
   body |-> [error |-> "NetworkError", message |-> "You are offline", offline |-> TRUE]]

\* fetch(`${API_URL}/...`): the 'fetch' event of the service worker
ApiFetch(rq) ==
  /\ swReq = <<>> /\ nfetch < MaxFetch
  /\ nfetch' = nfetch + 1
  /\ swReq' = <<rq>>
  /\ UNCHANGED <<apiCache, swOut, nonSwVars>>

\* `networkResponse = await fetch(request)`: the response of the handler is
\* cached when it is ok and the request a GET without query, and returned
HandleApiRequestNetwork ==
  /\ swReq # <<>>
  /\ \E rs \in HandlerResponses(swReq[1]) :
       /\ swOut' = <<rs>>
       /\ apiCache' = IF rs.status = 200 /\ swReq[1].method = "GET"
                        THEN apiCache \cup {swReq[1].route} ELSE apiCache
  /\ swReq' = <<>>
  /\ UNCHANGED <<nfetch, nonSwVars>>

\* the catch block: fetch has thrown; the cached response, or the offline
\* response
HandleApiRequestOffline ==
  /\ swReq # <<>>
  /\ swOut' = IF swReq[1].route \in apiCache
                THEN <<CHOOSE rs \in HandlerResponses(swReq[1]) : rs.status = 200>>
              ELSE <<OfflineResponse>>
  /\ swReq' = <<>>
  /\ UNCHANGED <<apiCache, nfetch, nonSwVars>>

ApiNext ==
  \/ \E rq \in ApiRequests : ApiFetch(rq)
  \/ HandleApiRequestNetwork
  \/ HandleApiRequestOffline

ApiSpec == ClientInit /\ [][ApiNext]_vars

\* the page that only saves answers, with the sync engine
SaveNext ==
  \/ Busy = {} /\ SetupIndexedDB
  \/ Busy = {} /\ InitTimer
  \/ Busy = {} /\ Online
  \/ Busy = {} /\ Offline
  \/ Busy = {} /\ Reload
  \/ Busy = {} /\ SaveJawabanLocal
  \/ Busy = {} /\ SaveJawabanPut
  \/ Busy = {} /\ SaveJawabanEnqueue
  \/ Busy = {} /\ SaveJawabanSync
  \/ Busy = {} /\ SaveJawabanDone
  \/ Busy = {} /\ SyncPendingSend
  \/ Busy = {} /\ SyncPendingMark
  \/ Busy = {} /\ ProcessSyncQueue
  \/ Busy = {} /\ ProcessQueueItemSend
  \/ Busy = {} /\ ProcessQueueItemDone
  \/ Busy = {} /\ SyncAllDone
  \/ Continue

SaveSpec == ClientInit /\ [][SaveNext]_vars

\* the steps the page takes by itself once a call, a timer or an open request
\* is under way: the rest of finishExam, the rest of a syncAll run, the
\* opening of IndexedDB, the 2 s timer of init(), the handlers of the backend
DrainSteps ==
  \/ Busy = {} /\ SetupIndexedDB
  \/ Busy = {} /\ InitTimer
  \/ Busy = {} /\ FinishExamEnqueue
  \/ Busy = {} /\ FinishExamSubmit
  \/ Busy = {} /\ FinishExamDone
  \/ Busy = {} /\ SyncPendingSend
  \/ Busy = {} /\ SyncPendingMark
  \/ Busy = {} /\ ProcessSyncQueue
  \/ Busy = {} /\ ProcessQueueItemSend
  \/ Busy = {} /\ ProcessQueueItemDone
  \/ Busy = {} /\ SyncAllDone
  \/ Continue

\* the page that only finishes exams, with the sync engine: the calls of the
\* user and the events of the window, and the steps that follow them
DrainNext ==
  \/ Busy = {} /\ Online
  \/ Busy = {} /\ Offline
  \/ Busy = {} /\ Reload
  \/ Busy = {} /\ FinishExamLocal
  \/ DrainSteps

DrainSpec == ClientInit /\ [][DrainNext]_vars

\* a started call, a started syncAll run and the timer of init() go on; the
\* 'online' and 'offline' events, a reload and a call of the user need not
\* happen (the constructor sets no interval that calls syncAll)
DrainLive == DrainSpec /\ WF_vars(DrainSteps)

(***************************************************************************)
(* Properties of the consolidation.                                        *)
(***************************************************************************)
\* token i of a token list, '-' when the list is shorter
TokenAt(ts, i) == IF i <= Len(ts) THEN ts[i] ELSE <<"-">>

\* subjects in which no two questions have the same sort key: there the
\* subject-local order of the questions is the same in every query
TieFree(m) == \A q1, q2 \in SoalOf(m) : SortKey(q1) = SortKey(q2) => q1 = q2

\* the subject-local index (1-based) of a question of a tie-free subject
LocalIndex(m, id) ==
  LET q == CHOOSE x \in SoalOf(m) : x.id = id
  IN 1 + Cardinality({ x \in SoalOf(m) : SortKey(x) < SortKey(q) })

InInit(r) == r.pc \in {"i_start", "i_ins", "i_chk_jwb", "i_ins_jwb"}
InUpdate(r) == r.kind \in {"save", "finish"} /\ r.pc # "idle"

\* C1: when updateJawabanGabungan(pid, aid, mid, s) returns, every question
\* soalList[i] of the subject that has a mapping row with no_urut_gabungan g
\* has token i of s at index g-1 of the participant's CombinedAnswer.
C1_TokensAtGlobalPositions ==
  [][\A k \in Slots :
       (InUpdate(reqs[k]) /\ reqs'[k].pc = "idle") =>
         \A p \in {reqs[k].pid}, sl \in {reqs[k].soalList}, ts \in {Split(reqs[k].jwb)} :
           \A i \in 1..Len(sl) : i <= Len(ts) =>
             \A mr \in Rows(soal_mapping_gabungan)' : mr.id_soal = sl[i] =>
               /\ GabunganOf(p)' # {}
               /\ \A row \in GabunganOf(p)' :
                    /\ mr.no_urut_gabungan <= Len(Split(row.jawaban))
                    /\ Split(row.jawaban)[mr.no_urut_gabungan] = ts[i]]_vars

\* the tokens of the last saved strings of the ready subjects, in MapelList order
RECURSIVE SavedTokens(_, _)
SavedTokens(p, ml) ==
  IF ml = <<>> THEN <<>>
  ELSE Split(saved[<<p, Head(ml)>>][1]) \o SavedTokens(p, Tail(ml))

\* C2: once a participant has saved a string (one token per question) for
\* every ready subject of the agenda through save-jawaban, one request after
\* another, the CombinedAnswer is the saved strings joined in ascending
\* subject id.
C2_CombinedIsConcatenation ==
  \A p \in Peserta :
    (/\ Busy = {} /\ mata_pelajaran # {}
     /\ \A m \in mata_pelajaran :
          /\ saved[<<p, m>>] # <<>>
          /\ Len(Split(saved[<<p, m>>][1])) = Cardinality(SoalOf(m))) =>
      /\ GabunganOf(p) # {}
      /\ \A row \in GabunganOf(p) : row.jawaban = Join(SavedTokens(p, MapelList))

\* no_urut_gabungan of the stored rows, with multiplicity
CopiesOfUrut(g) ==
  SumCopies(soal_mapping_gabungan, { r \in Rows(soal_mapping_gabungan) : r.no_urut_gabungan = g })

C4_MappingDeterministic == Cardinality(genLog) <= 1

\* C5: an initJawabanGabungan call made when the participant already had a
\* CombinedAnswer row writes neither jawaban_gabungan nor soal_mapping_gabungan.
C5_InitKeepsExistingRow ==
  [][\A k \in Slots :
       (InInit(reqs[k]) /\ reqs[k].hadRow /\ reqs'[k] # reqs[k]) =>
         /\ jawaban_gabungan' = jawaban_gabungan
         /\ soal_mapping_gabungan' = soal_mapping_gabungan]_vars

\* an init call that found a row holding answers has returned success
C5_Witness ==
  /\ Busy = {} /\ kept
  /\ \E row \in Rows(jawaban_gabungan) :
       /\ row.jawaban # Join(Dashes(row.total_soal))
       /\ saved[<<row.id_peserta, 1>>] # <<>>
       /\ applied[<<row.id_peserta, 1>>] # <<>>

\* the participant has exactly one CombinedAnswer row
OneRow(p) == SumCopies(jawaban_gabungan, GabunganOf(p)) = 1

(***************************************************************************)
(* Properties of the client.                                               *)
(***************************************************************************)
Idle == ui.pc = "idle" /\ sync.pc = "idle" /\ Busy = {}

\* C6: an answer saved offline, after the participant has begun the subject,
\* and put in the queue is the backend's answer of the subject once the page
\* is online again and a syncAll run that began after the save has ended with
\* the queue empty and no record unsynced, when no later saveJawaban or
\* finishExam of the subject was made.
C6_OfflineSaveReachesBackend ==
  \A m \in ClientSubjects :
    LET n == last[m] IN
    (/\ n # 0 /\ muts[n].type = "save" /\ muts[n].offline /\ muts[n].begun
     /\ n \in enq /\ n \in covered
     /\ isOnline /\ Idle /\ db /\ idbSyncQueue = <<>> /\ Unsynced = <<>>)
    => \A row \in JawabanOf(UserId, m) : row.jawaban = muts[n].jwb

\* C7: when a finishExam call reaches /selesai-ujian, every saveJawaban call
\* of the same subject that was made offline and queued before it has reached
\* /save-jawaban.
C7_FinishAfterQueuedSaves ==
  \A j \in 1..Len(dlv) :
    dlv[j][2] = "finish" =>
      \A s \in enq :
        (/\ s < dlv[j][1] /\ muts[s].type = "save" /\ muts[s].offline
         /\ muts[s].m = muts[dlv[j][1]].m)
        => \E i \in 1..(j - 1) : dlv[i] = <<s, "save">>

\* C8: once a fetch of a subject's questions has succeeded (and the subject's
\* cache has not been cleared since), getSoal(mapelId) without forceRefresh
\* returns what that fetch returned and starts no request.
C8_WarmReadIsLocal ==
  [][\A m \in ClientSubjects :
       (warm[m] # <<>> /\ GetSoalCall(m, FALSE))
       => (/\ lastRet'.m = m /\ lastRet'.data = warm[m]
           /\ lastRet'.source \in {"memory", "localStorage", "indexedDB"}
           /\ ui' = ui /\ reqs' = reqs /\ resp' = resp)]_vars

\* getSoal has answered from localStorage, after a reload, with the set that
\* was fetched
C8_Witness ==
  /\ lastRet.m \in ClientSubjects
  /\ lastRet.source = "localStorage" /\ ~lastRet.offline
  /\ lastRet.data # <<>> /\ lastRet.data = warm[lastRet.m]
  /\ ui.pc = "idle"

\* C9: when no request is running, the CombinedAnswer holds, for every
\* subject, the tokens of the string that updateJawabanGabungan last wrote
\* for it: no completed update is lost to an overlapping one.
C9_NoLostUpdate ==
  \A p \in Peserta, m \in Subjects :
    (Busy = {} /\ applied[<<p, m>>] # <<>> /\ TieFree(m) /\ OneRow(p)) =>
      \A mr \in MappingOfMapel(m), row \in GabunganOf(p) :
        mr.no_urut_gabungan <= Len(Split(row.jawaban)) =>
          Split(row.jawaban)[mr.no_urut_gabungan]
            = TokenAt(Split(applied[<<p, m>>][1]), LocalIndex(m, mr.id_soal))

\* C10: when the mapping exists and no save-jawaban or selesai-ujian of the
\* participant is running, token g-1 of the CombinedAnswer is the token the
\* AnswerStore row holds for the question with no_urut_gabungan g; stated for
\* the subjects whose AnswerStore row has been written by a handler and whose
\* tokens updateJawabanGabungan has written into the CombinedAnswer.
C10_CombinedReflectsAnswerStore ==
  \A p \in Peserta :
    ((\A k \in Slots : ~(InUpdate(reqs[k]) /\ reqs[k].pid = p)) /\ OneRow(p)) =>
      \A mr \in Rows(soal_mapping_gabungan) :
        (TieFree(mr.id_mapel) /\ applied[<<p, mr.id_mapel>>] # <<>>) =>
          \A arow \in JawabanOf(p, mr.id_mapel), row \in GabunganOf(p) :
            (/\ arow.jawaban # Join(Dashes(Cardinality(SoalOf(mr.id_mapel))))
             /\ mr.no_urut_gabungan <= Len(Split(row.jawaban))) =>
              Split(row.jawaban)[mr.no_urut_gabungan]
                = TokenAt(Split(arow.jawaban), LocalIndex(mr.id_mapel, mr.id_soal))

\* C11: the string that updateJawabanGabungan PATCHes for subject mid has as
\* many tokens as the CombinedAnswer it read in step 3 (the stored one, when
\* the request runs alone) and the same token at every position that is the
\* no_urut_gabungan of a question of another subject.
C11_OtherSubjectsUntouched ==
  [][\A k \in Slots :
       (reqs[k].pc = "u_patch" /\ reqs'[k] # reqs[k]) =>
         \A p \in {reqs[k].pid}, m \in {reqs[k].mid}, old \in {reqs[k].gab[1]} :
           /\ GabunganOf(p)' # {}
           /\ \A new \in GabunganOf(p)' :
                /\ Len(Split(new.jawaban)) = Len(Split(old.jawaban))
                /\ \A mr \in Rows(soal_mapping_gabungan) :
                     (mr.id_mapel # m /\ mr.no_urut_gabungan <= Len(Split(old.jawaban)))
                     => Split(new.jawaban)[mr.no_urut_gabungan]
                          = Split(old.jawaban)[mr.no_urut_gabungan]]_vars

\* the CombinedAnswer holds answers of two subjects, each written by
\* updateJawabanGabungan
C11_Witness ==
  /\ Busy = {}
  /\ \E row \in Rows(jawaban_gabungan), m1, m2 \in Rows(soal_mapping_gabungan) :
       /\ m1.id_mapel # m2.id_mapel
       /\ applied[<<row.id_peserta, m1.id_mapel>>] # <<>>
       /\ applied[<<row.id_peserta, m2.id_mapel>>] # <<>>
       /\ m1.no_urut_gabungan <= Len(Split(row.jawaban))
       /\ m2.no_urut_gabungan <= Len(Split(row.jawaban))
       /\ Split(row.jawaban)[m1.no_urut_gabungan] # <<"-">>
       /\ Split(row.jawaban)[m2.no_urut_gabungan] # <<"-">>

\* the step with which an initJawabanGabungan call returns success
InitReturns(k) ==
  /\ reqs'[k] # reqs[k]
  /\ \/ reqs[k].pc = "i_ins_jwb"
     \/ reqs[k].pc = "i_chk_jwb" /\ reqs'[k].pc # "i_ins_jwb"

\* C12: when initJawabanGabungan returns from a call that found mapping rows
\* of the agenda, the stored mapping rows are exactly the rows the call
\* computed.
C12_InitReplacesMapping ==
  [][\A k \in Slots :
       (InitReturns(k) /\ reqs[k].hadMapping) =>
         soal_mapping_gabungan' = BagOfSeq(reqs[k].soalMappings)]_vars

\* C13: an initJawabanGabungan call that finds no subject with status 'Siap'
\* returns at once, without success, and writes neither the mapping table nor
\* the CombinedAnswer table (nor any other table).
C13_NoSubjectsNoWrite ==
  [][\A k \in Slots :
       (InInit(reqs[k]) /\ mata_pelajaran = {} /\ reqs'[k] # reqs[k]) =>
         /\ ~InInit(reqs'[k])
         /\ noMapel' /\ initOk' = initOk
         /\ UNCHANGED dbVars]_vars

\* the call has returned 'Tidak ada mapel' and the two tables are empty
C13_Witness ==
  /\ noMapel /\ Busy = {} /\ ~initOk
  /\ soal_mapping_gabungan = EmptyBag /\ jawaban_gabungan = EmptyBag


\* C14: get-soal creates the AnswerStore row of a participant and subject once:
\* whatever the number of get-soal requests, sequential or overlapping, the
\* table holds at most one row for the pair.
C14_OneAnswerRow ==
  \A p \in Peserta, m \in Subjects :
    /\ Cardinality(JawabanOf(p, m)) <= 1
    /\ \A row \in JawabanOf(p, m) : CopiesIn(row, jawaban) = 1


\* C15: a sync-queue entry is removed, and a stored answer is marked synced,
\* only in a step that handles a successful response of the backend to the
\* delivery of that item.
C15_RemovedOnlyAfterSuccess ==
  [][((\E j \in 1..Len(idbSyncQueue) :
          \A i \in 1..Len(idbSyncQueue') : idbSyncQueue'[i].id # idbSyncQueue[j].id)
      \/ (\E j \in 1..Len(idbJawaban) :
            /\ ~idbJawaban[j].synced
            /\ \E i \in 1..Len(idbJawaban') :
                 idbJawaban'[i].id = idbJawaban[j].id /\ idbJawaban'[i].synced))
     => (resp["sync"] # <<>> /\ resp["sync"][1].success)]_vars


\* C16: every saveJawaban or finishExam call whose request has reached the
\* backend had appended its entry to the durable sync queue before.
C16_QueuedBeforeRequest ==
  \A j \in 1..Len(dlv) : dlv[j][1] \in enq


\* C17: when the delivery of a queue entry fails for the time that reaches the
\* retry ceiling, the entry stays in the queue and the queue records that
\* number of failures for it.
C17_CeilingRecorded ==
  [][(/\ sync.pc = "q" /\ sync.i <= Len(sync.items)
      /\ sync'.pc = "q" /\ sync'.i = sync.i + 1
      /\ sync.items[sync.i].attempts = MaxAttempts - 1)
     => \E j \in 1..Len(idbSyncQueue') :
          /\ idbSyncQueue'[j].id = sync.items[sync.i].id
          /\ idbSyncQueue'[j].attempts = MaxAttempts]_vars


\* C18: in every saveJawaban call the memory write and the localStorage write
\* are complete before the call's IndexedDB record, its queue entry or a
\* request carrying its answer comes into being.
C18_LocalBeforeDurable ==
  [][(/\ ui.op = "saveJawaban"
      /\ \/ /\ \A j \in 1..Len(idbJawaban) : idbJawaban[j].mut # ui.mut
            /\ \E j \in 1..Len(idbJawaban') : idbJawaban'[j].mut = ui.mut
         \/ /\ \A j \in 1..Len(idbSyncQueue) : idbSyncQueue[j].id # ui.mut
            /\ \E j \in 1..Len(idbSyncQueue') : idbSyncQueue'[j].id = ui.mut
         \/ /\ \A j \in 1..Len(dlv) : dlv[j][1] # ui.mut
            /\ \E j \in 1..Len(dlv') : dlv'[j][1] = ui.mut)
     => (cacheJawaban[ui.m] = <<ui.jwb>> /\ lsJawaban[ui.m] = <<ui.jwb>>)]_vars

\* a saveJawaban call that has written its record and its queue entry and
\* waits for the response of its request
C18_Witness ==
  /\ ui.op = "saveJawaban" /\ ui.pc = "s_wait"
  /\ \E j \in 1..Len(idbJawaban) : idbJawaban[j].mut = ui.mut
  /\ \E j \in 1..Len(idbSyncQueue) : idbSyncQueue[j].id = ui.mut
  /\ \E j \in 1..Len(dlv) : dlv[j] = <<ui.mut, "save">>
  /\ cacheJawaban[ui.m] = <<ui.jwb>> /\ lsJawaban[ui.m] = <<ui.jwb>>


\* C19: a getSoal call answered from a slower tier leaves the entry in every
\* faster tier: in memory after a localStorage hit, in memory and in
\* localStorage after an IndexedDB hit.
C19_ReadThrough ==
  [][\A m \in ClientSubjects :
       (GetSoalCall(m, FALSE) /\ CacheGetSoal(m).data # <<>>) =>
         /\ cacheSoal'[m] = CacheGetSoal(m).data
         /\ (CacheGetSoal(m).source = "indexedDB" => lsSoal'[m] = CacheGetSoal(m).data)]_vars


\* C20: the local store holds either no package, or the package record, the
\* session record and the questions of one and the same download and no
\* question of another one.
C20_PackageWhole ==
  \/ exam_packages = {} /\ questions = {} /\ sessions = {}
  \/ \E p \in exam_packages :
       /\ exam_packages = {p}
       /\ sessions = {[session_id |-> 1, package_data |-> p.data]}
       /\ questions = QuestionRecords(p.data)


\* C21: an image that eviction removes is not referenced by the questions the
\* page has open, and no image that is not referenced was accessed longer ago.
C21_EvictsUnreferencedLRU ==
  [][\A x \in images \ images' :
       (\A y \in images' : y.url # x.url) =>
         /\ x.url \notin openUrls
         /\ \A y \in images : y.url \notin openUrls => x.last_accessed <= y.last_accessed]_vars


\* C22: every response the page receives for an API request carries a success
\* field, and the field is false when the status is not a 2xx.
C22_ResponseHasSuccess ==
  swOut # <<>> =>
    /\ "success" \in DOMAIN swOut[1].body
    /\ (swOut[1].status # 200 => swOut[1].body.success = FALSE)


\* C23: GET /jawaban-gabungan for a participant without a CombinedAnswer row
\* writes nothing and its response reports success with an empty answer.
C23_AbsentIsNotError ==
  [][(gabOut' # gabOut /\ ~gabOut'[1].found) =>
        /\ UNCHANGED dbVars
        /\ gabOut'[1].response.success
        /\ gabOut'[1].response.jawaban = <<>>]_vars

\* the AnswerStore status of a pair is the finished status: there is a row
\* and every row of the pair has status 'Selesai'
Finished(p, m) ==
  /\ JawabanOf(p, m) # {}
  /\ \A x \in JawabanOf(p, m) : x.status = "Selesai"

\* C24: when POST /selesai-ujian answers with success for a (participant,
\* subject), the AnswerStore status of the pair is the finished status, and
\* no later step of any request turns a finished pair into a non-finished one
C24_FinishedStays ==
  [][\A p \in Peserta, m \in Subjects :
       /\ (\E k \in Slots : /\ reqs[k].kind = "finish" /\ reqs[k].pid = p /\ reqs[k].mid = m
                            /\ reqs'[k].pc = "idle")
            => Finished(p, m)'
       /\ Finished(p, m) => Finished(p, m)']_vars

\* C25: when the request made during saveJawaban or finishExam fails (the page
\* is online with a user, and fetch throws), the call does not throw:
\* finishExam returns a result marked as offline or queued, and the syncQueue
\* entry the call made is still in the store
C25_NetworkFailureIsQueued ==
  [][(/\ ui.pc \in {"s_sync", "f_submit"} /\ ui'.pc = "idle" /\ initPc' = initPc
      /\ isOnline /\ cacheUser)
       => /\ (ui.op = "finishExam" =>
                /\ ~callOut'[1].thrown
                /\ callOut'[1].result \in {"offline", "queued"})
          /\ (ui.mut \in enq => \E j \in 1..Len(idbSyncQueue') : idbSyncQueue'[j].id = ui.mut)]_vars

\* C26: supabaseRequest makes at most retries + 1 attempts, and when every
\* attempt ended in a transient failure (429, 5xx, fetch throws) the call
\* ends by throwing, never by returning
C26_TransientFailureThrows ==
  sbReq # <<>> =>
    /\ Len(sbReq[1].log) <= Retries(sbReq[1].ver) + 1
    /\ (/\ sbReq[1].out # "running"
        /\ \A j \in 1..Len(sbReq[1].log) : sbReq[1].log[j] \in Transient)
         => sbReq[1].out = "thrown"

\* C27: when updateJawabanGabungan found no mapping rows or no CombinedAnswer
\* row, called initJawabanGabungan and read again, then on its return the
\* CombinedAnswer row of the participant exists and holds the submitted tokens
\* at the global positions of the subject's questions
C27_LazyInitWritesTokens ==
  [][\A k \in Slots :
       (reqs[k].pc \in {"u_remap", "u_regab"} /\ reqs'[k].pc = "idle") =>
         \A p \in {reqs[k].pid}, sl \in {reqs[k].soalList}, ts \in {Split(reqs[k].jwb)} :
           /\ GabunganOf(p)' # {}
           /\ \A i \in 1..Len(sl) : i <= Len(ts) =>
                \A mr \in Rows(soal_mapping_gabungan)' : mr.id_soal = sl[i] =>
                  \A row \in GabunganOf(p)' :
                    /\ mr.no_urut_gabungan <= Len(Split(row.jawaban))
                    /\ Split(row.jawaban)[mr.no_urut_gabungan] = ts[i]]_vars

\* the global positions stored for a question
PositionsOf(soalId) ==
  { mr.no_urut_gabungan : mr \in { x \in Rows(soal_mapping_gabungan) : x.id_soal = soalId } }

\* C28: in the write of updateJawabanGabungan the CombinedAnswer keeps its
\* length; when the submitted string has more tokens than the subject has
\* questions, every position that is not the position of a question of the
\* subject keeps its token; every question of the subject past the last
\* submitted token gets '-' at its global position
C28_ExtraIgnoredMissingDashed ==
  [][\A k \in Slots :
       (reqs[k].pc = "u_patch" /\ reqs'[k].pc = "idle") =>
         \A p \in {reqs[k].pid}, sl \in {reqs[k].soalList}, ts \in {Split(reqs[k].jwb)} :
           \A old \in GabunganOf(p) : \A new \in GabunganOf(p)' :
             LET o == Split(old.jawaban)
                 n == Split(new.jawaban)
             IN /\ Len(n) = Len(o)
                /\ Len(ts) > Len(sl) =>
                     \A g \in 1..Len(o) :
                       g \notin UNION { PositionsOf(sl[i]) : i \in 1..Len(sl) } => n[g] = o[g]
                /\ \A i \in 1..Len(sl) : i > Len(ts) =>
                     \A g \in PositionsOf(sl[i]) : g <= Len(n) /\ n[g] = <<"-">>]_vars

\* one subject got a string with more tokens than it has questions, another
\* a string with fewer
C28_Witness ==
  \E p \in Peserta, m1, m2 \in Subjects :
    /\ applied[<<p, m1>>] # <<>> /\ applied[<<p, m2>>] # <<>>
    /\ Len(Split(applied[<<p, m1>>][1])) > Cardinality(SoalOf(m1))
    /\ Len(Split(applied[<<p, m2>>][1])) < Cardinality(SoalOf(m2))

\* the stored mapping rows of a question, with multiplicity
CopiesOfSoal(soalId) ==
  SumCopies(soal_mapping_gabungan, { r \in Rows(soal_mapping_gabungan) : r.id_soal = soalId })

\* C29: after initJawabanGabungan calls that ran concurrently (from
\* init-gabungan, get-soal and the lazy init of a save) have returned, with
\* one of them successful, every question of a ready subject has exactly one
\* mapping row and every participant with a CombinedAnswer row has exactly one
C29_ConcurrentInitOneRow ==
  (Busy = {} /\ initOk) =>
    /\ \A q \in bank_soal : q.id_mapel \in mata_pelajaran => CopiesOfSoal(q.id) = 1
    /\ \A p \in Peserta : GabunganOf(p) # {} => OneRow(p)

C31_FinishedStringKept ==
  [][(\E k \in Slots : reqs[k].pc = "idle" /\ reqs'[k].kind = "save")
       => \A x \in Rows(jawaban) : x.status = "Selesai" => x \in Rows(jawaban')]_vars

\* C32: when the page is online, no call, sync run or request is under way,
\* the syncQueue store is empty and no record is unsynced, the backend's
\* answer of a subject is the answer of the latest saveJawaban call of the
\* subject, for a call that was queued and that a completed syncAll run
\* followed
C32_LatestSaveWins ==
  \A m \in ClientSubjects :
    LET n == last[m] IN
    (/\ n # 0 /\ muts[n].type = "save" /\ muts[n].begun
     /\ \A j \in 1..Len(muts) : muts[j].m = m => (muts[j].type = "save" /\ j \in enq)
     /\ n \in covered
     /\ isOnline /\ Idle /\ db /\ idbSyncQueue = <<>> /\ Unsynced = <<>>)
    => \A row \in JawabanOf(UserId, m) : row.jawaban = muts[n].jwb

\* a syncQueue entry whose delivery has failed, fewer than MaxAttempts times,
\* lies in the store while the page is online with IndexedDB open and neither
\* a call nor a syncAll run is under way
LeftFailed ==
  /\ isOnline /\ db /\ Idle
  /\ \E i \in 1..Len(idbSyncQueue) :
       idbSyncQueue[i].attempts > 0 /\ idbSyncQueue[i].attempts < MaxAttempts

\* C33: a syncQueue entry that has failed fewer than MaxAttempts times is not
\* left for ever while the page is online: a syncAll run starts, or the page
\* goes offline, or the entry leaves the store
C33_FailedEntryRetried == LeftFailed ~> ~LeftFailed

\* C34: when a save-jawaban request has sent its response, the response
\* reports success, the AnswerStore rows of (pid, mid) hold the submitted
\* string, and where the participant has a CombinedAnswer row every question
\* of the subject that has a mapping row has its submitted token at its
\* global position
C34_SaveSurvivesConsolidation ==
  [][\A k \in Slots :
       (reqs[k].kind = "save" /\ reqs[k].pc # "idle" /\ reqs'[k].pc = "idle") =>
         \A p \in {reqs[k].pid}, m \in {reqs[k].mid}, sl \in {reqs[k].soalList},
            s \in {reqs[k].jwb} :
           /\ Response(reqs[k]).success
           /\ \A x \in JawabanOf(p, m)' : x.jawaban = s
           /\ \A i \in 1..Len(sl) : i <= Len(Split(s)) =>
                \A mr \in Rows(soal_mapping_gabungan)' : mr.id_soal = sl[i] =>
                  \A row \in GabunganOf(p)' :
                    mr.no_urut_gabungan <= Len(Split(row.jawaban)) =>
                      Split(row.jawaban)[mr.no_urut_gabungan] = Split(s)[i]]_vars

\* C35: after a step of a request that creates or writes AnswerStore rows,
\* the string of every row of the request's (participant, subject) has one
\* token per question of the subject
C35_OneTokenPerQuestion ==
  [][\A x \in Rows(jawaban') :
       x \notin Rows(jawaban) =>
         Len(SplitLong(x.jawaban)) = Cardinality(SoalOf(x.id_mapel))]_vars

\* C40: the write of a save-jawaban-chunk request keeps the number of tokens
\* of the stored string, puts every non-null entry i of chunk_data at index
\* chunk_index * CHUNK_SIZE + i, and leaves every other position as it was
\* just before the write
C40_ChunkSavesCompose ==
  [][\A k \in Slots :
       (reqs[k].pc = "sc_patch" /\ reqs'[k].pc = "idle") =>
         \A c \in {reqs[k].chunk_index}, d \in {reqs[k].chunk_data},
            x \in JawabanOf(reqs[k].pid, reqs[k].mid) :
           \A y \in { z \in Rows(jawaban') :
                        z.id_peserta = x.id_peserta /\ z.id_mapel = x.id_mapel } :
             LET a == SplitLong(x.jawaban)
                 b == SplitLong(y.jawaban)
             IN /\ Len(b) = Len(a)
                /\ \A j \in 1..Len(a) :
                     LET i == (j - 1) - c * CHUNK_SIZE
                     IN IF i >= 0 /\ i < Len(d) /\ d[i + 1] # Null
                          THEN b[j] = d[i + 1] ELSE b[j] = a[j]]_vars

\* C36: when the clean-up started by cleanupOldCache has ended, the records of
\* the three stores that getCacheSize sums are within maxCacheSize
C36_CleanupRestoresBudget ==
  [][(evict # <<>> /\ evict' = <<>>) =>
       Cardinality(exam_packages') + Cardinality(questions') + Cardinality(images')
         <= MaxCacheSize]_vars

\* a string of n tokens, all of them '-'
AllDash(str, n) ==
  /\ Len(Split(str)) = n
  /\ \A i \in 1..n : Split(str)[i] = <<"-">>

\* C37: a participant's CombinedAnswer row is created with total_soal tokens,
\* all '-'; once there is a row there is one in every later state; a row
\* that changes keeps total_soal and its number of tokens; and the write of
\* updateJawabanGabungan is made whatever the row and the AnswerStore hold:
\* after it the position of every question of the subject holds the
\* submitted token
C37_RowLifecycle ==
  [][\A p \in Peserta :
       /\ GabunganOf(p) = {} =>
            \A x \in GabunganOf(p)' : x.total_soal > 0 /\ AllDash(x.jawaban, x.total_soal)
       /\ GabunganOf(p) # {} =>
            /\ GabunganOf(p)' # {}
            /\ SumCopies(jawaban_gabungan', GabunganOf(p)') >= SumCopies(jawaban_gabungan, GabunganOf(p))
            /\ \A x \in GabunganOf(p)' :
                 \E y \in GabunganOf(p) :
                   /\ x.total_soal = y.total_soal
                   /\ Len(Split(x.jawaban)) = Len(Split(y.jawaban))
       /\ \A k \in Slots :
            (reqs[k].pc = "u_patch" /\ reqs[k].pid = p /\ reqs'[k].pc = "idle") =>
              \A sl \in {reqs[k].soalList}, ts \in {Split(reqs[k].jwb)},
                 ml \in {reqs[k].mappingList} :
                \A i \in 1..Len(sl) :
                  \A mr \in ml : mr.id_soal = sl[i] =>
                    \A x \in GabunganOf(p)' :
                      mr.no_urut_gabungan <= Len(Split(x.jawaban)) =>
                        Split(x.jawaban)[mr.no_urut_gabungan] = TokenAt(ts, i)]_vars

\* a save-jawaban request has written the CombinedAnswer of a participant
\* after the subject was finished, and the row is not all '-'
C37_Witness ==
  \E p \in Peserta, m \in Subjects :
    /\ Busy = {} /\ Finished(p, m)
    /\ saved[<<p, m>>] # <<>> /\ applied[<<p, m>>] = saved[<<p, m>>]
    /\ \A x \in JawabanOf(p, m) : <<x.jawaban>> = saved[<<p, m>>]
    /\ \E x \in GabunganOf(p) : ~AllDash(x.jawaban, x.total_soal)

\* C38: a TempAnswer with synced = true holds the answer the server
\* acknowledged last for its question
C38_SyncedIsAcknowledged ==
  \A q \in QuestionIds :
    (temp_answers[q] # <<>> /\ temp_answers[q][1].synced) =>
      ackd[q] = <<temp_answers[q][1].answer>>

\* C39: for a participant of the loaded package, validateLogin(username,
\* password) is valid exactly when the password is the one of the
\* participant's row, from which the package's password_hash was built
C39_OfflineLoginMatchesServer ==
  (loginOut # <<>> /\ participants # <<>> /\ loginOut[1].username \in DOMAIN peserta) =>
    (loginOut[1].valid <=> loginOut[1].password = peserta[loginOut[1].username])

====
